---- MODULE Spec2Model ----
(***************************************************************************)
(* State-machine model of the LSP2025-drawer painter engine:               *)
(*   - the scheduler loop of handle_websocket (src/main.py), with its      *)
(*     credential cooldowns, position locks, canvas mirror and reconnects; *)
(*   - the two paint batchers of the repository: tool.send_paint_data      *)
(*     (src/tool.py) and main.send_paint_data (src/main.py);               *)
(*   - the heartbeat handlers of the read/write and write-only             *)
(*     connections.                                                        *)
(* Time is counted in whole seconds of time.monotonic().                   *)
(***************************************************************************)
EXTENDS Integers, Sequences, FiniteSets, TLC

\* ------------------------------------------------------------------------
\* Bounds of the model
\* ------------------------------------------------------------------------
NumUsers == 1
NumPos == 2
MaxTime == 3
MaxRecords == 3          \* records in one received message
MaxDecMsgs == 2
NumLayers == 2
NumCredentials == 2
frame_interval == 3
MaxSamples == 24
NumSortUsers == 3          \* messages a handler receives
token_refresh_interval == 2   \* config['token_refresh_interval_seconds']
MaxSessions == 7         \* connections run_forever goes through
StallCooldown == 150     \* user_cooldown_seconds of the run watched for stalls
MaxStallTime == 285      \* last second of that run
MsgPeriod == 30          \* the server's messages arrive on a grid of this many seconds
MaxColor == 1
user_cooldown_seconds == 1
MaxFails == 1
MaxFrames == 4
MaxEpoch == 2
MaxMsgs == 1
MaxMsgLen == 2
MaxBursts == 3
MaxConnBursts == 1
BigBurst == 1033

\* ------------------------------------------------------------------------
\* Program constants
\* ------------------------------------------------------------------------
FRAME_LEN == 31
MAX_PACKET == 32000
max_packet_size == 32768
HOLD_BACK_BYTES == 155
\* global_paint_id is reduced modulo 4294967296 = PAINT_ID_HALF * PAINT_ID_HALF
PAINT_ID_HALF == 65536
ACTIVE_TASK_TTL == 5
SCAN_FACTOR_FEW == 20
SCAN_FACTOR_MANY == 50
MANY_TOKENS == 50
STATUS_SUCCESS == 239
STATUS_COOLDOWN == 238
STATUS_TOKEN_INVALID == 237
STATUS_BAD_FORMAT == 236
PONG_FAIL_LIMIT == 3
BACKOFF_MIN == 1
ZERO_GROWTH_RECONNECT_THRESHOLD == 120
MESSAGE_TIMEOUT == 60
pixels_window_seconds == 10
backoff_max == 60
SHORT_LIFETIME == 10
MEDIUM_LIFETIME == 30
LONG_LIFETIME == 60
OP_PING == 252
OP_RESULT == 255
OP_PIXEL == 250
RESULT_PAYLOAD == 5
PIXEL_PAYLOAD == 7
CANVAS_W == 1000
CANVAS_H == 600
OP_PAINT == 254
TOKEN_LEN == 16
UID_MAX == 16777215
MAX_ATTEMPTS == 5
FIRST_DELAY == 1
DELAY_CAP == 10
steady_window_time == 30
MIN_WINDOW == 10
MIN_FRAMES == 20
MIN_FRAMES_TIME == 60
steady_frames_needed == 10
VOLATILITY_MIN_SAMPLES == 5
TREND_MIN_SAMPLES == 10

Users == 1..NumUsers
Coords == 1..NumPos
Colors == 0..MaxColor
None == -1
NoLock == 0
Statuses == {STATUS_SUCCESS, STATUS_COOLDOWN, STATUS_TOKEN_INVALID, STATUS_BAD_FORMAT}

\* The composed target: every coordinate of the layer wants colour 1, scanned
\* in the composer's order.
target_positions == [i \in 1..NumPos |-> i]
target_map == [p \in Coords |-> 1]
total_targets == Len(target_positions)

VARIABLES
    \* --- real time and the run_forever / handle_websocket lifecycle
    clock,                  \* time.monotonic(), in seconds
    conn,                   \* "down": run_forever between two handle_websocket calls; "up": inside
    epoch,                  \* number of handle_websocket calls so far
    ws_open,                \* the read/write socket is open
    need_reconnect,
    down_at,                \* when handle_websocket last returned
    w_open,                 \* the write-only connection: "none", "open" or "closed"
    \* --- locals of handle_websocket
    pc,                     \* scheduler position: "loop" or "refresh" (awaiting refresh_tokens_async)
    now,                    \* the scheduler's `now`, sampled at the top of an iteration
    token_states,
    token_refresh_needed,
    refreshing,             \* uids_to_refresh of the refresh being awaited
    token_gen,              \* how often each uid's token was replaced
    active_tasks,
    pos_locks,
    board_state,
    scan_cursor,
    global_paint_id,
    stats,
    \* --- batchers
    impl,                   \* which batcher the build runs: "tool" or "main"
    paint_queue,            \* tool.paint_queue, as the bytes it holds
    total_size,             \* tool.total_size
    main_paint_queue,       \* main.paint_queue
    main_total_size,        \* main.total_size
    sender_pc,              \* per connection: "sleep" or "send"
    merged_data,            \* per connection: the merged_data being sent
    send_start,             \* per connection: `start` of the chunk loop
    fails,                  \* send failures so far
    \* --- heartbeat
    inbox,                  \* per connection: records of the message being decoded
    hb_pc,                  \* per connection: "recv", "pong" or "done"
    pong_failures,
    \* --- observation (history) variables
    nframes,                \* frames built by paint() so far
    bursts,                 \* calls of the frame producer so far
    enq_log,                \* one entry per frame the scheduler enqueued
    wire,                   \* per connection: the messages sent, in order
    pings_decoded,          \* per connection: 0xfc records decoded
    pong_sends,             \* per connection: calls of ws.send(bytes([0xfb])) that returned
    pong_errors,            \* per connection: calls of ws.send(bytes([0xfb])) that raised
    msgs_in,                \* messages delivered so far
    last_rx,                \* the record this session's receiver decoded last
    invalid_uids,           \* uids whose token a 0xed result rejected and no refresh has replaced
    \* --- connection health: configuration, progress_printer, receiver time stamps
    cooldown,               \* config['user_cooldown_seconds'] of this run
    zero_growth_seconds,
    pixels_history,         \* progress_printer's deque of (timestamp, success_count)
    last_message_time,
    last_ping_received,
    pp_next,                \* when progress_printer's sleep(1) ends
    reconnect_causes,       \* the rules that have set need_reconnect in this session
    \* --- run_forever's reconnect policy
    backoff,                \* seconds, an exact fraction [num, den]
    last_successful_duration,
    sessions,               \* calls of handle_websocket that have ended
    last_lifetime,          \* how long the last of them was connected
    last_exit,              \* and how it ended: "return" or the exception raised
    \* --- run_forever's loop around handle_websocket
    rf_pc,                  \* "check", "call", "session", "wait" or "returned"
    stop,                   \* gui_state['stop']
    stop_requested,         \* a stop has been requested since the start
    last_token_refresh,
    \* --- the opcode loop of a receive handler, octet by octet
    dec_conn,               \* whose handler: "rw" (receiver) or "w0" (heartbeat_handler)
    dec_data,               \* the message being decoded, a sequence of octets
    dec_offset,
    dec_out,                \* the records that have taken effect, in order
    dec_sent,               \* the complete records the server has put in its messages
    dec_msgs,               \* messages received so far
    \* --- one call of paint()
    paint_args,             \* [x, y, r, g, b, uid, token, paint_id]
    paint_data,             \* the octets it appended to the queue, <<>> before the call
    \* --- the target picture
    images_config,          \* config['images']
    ignore_semitransparent, \* config['ignore_semitransparent']
    images_data,            \* load_all_images(config) at start-up
    reload_pixels,          \* gui_state['reload_pixels']
    gui_images_data,        \* gui_state['images_data']
    combined_target_map,    \* coordinate -> colour
    all_target_positions,   \* the coordinates in painting order
    pos_to_image_idx,       \* coordinate -> config index of its layer
    positions_by_image,     \* config index -> its coordinates, in painting order
    merged_images,          \* the images_data the target was last merged from
    \* --- get_token, one call per credential, and get_tokens_with_progress
    gt_pc,                  \* "post": in the retry loop; "done": returned; "collected"
    attempt,                \* POSTs made so far
    delay,                  \* the delay the next failure sleeps
    slept,                  \* the delays slept so far
    last_outcome,           \* how the last POST ended
    gt_token,               \* what get_token returned (None: no token)
    results,                \* the credentials that got a token
    invalid_users,          \* user['invalid'] = True
    \* --- the steady-state estimator of run_test_phase
    est_stream,             \* the completion percentages the board will show
    frame_completions,
    frame_idx,
    max_completion,
    max_completion_frame,
    steady_state_reached,
    steady_frame_count,
    est_decision,           \* what the estimator saw at the frame it declared steady state
    \* --- one allocation with several credentials
    sort_states,            \* token_states of the credentials
    sort_ready,             \* ready_tokens after the sort, before the scan
    sort_assigned,          \* the (uid, pos) pairs the scan assigned
    sort_done,              \* the allocation has run
    \* --- observation of the scan
    passed_over,            \* position -> allocations in a row that left it unpainted though it needed paint
    \* --- a second worker thread (thread_workers = 2)
    peer_conn               \* "down" or "up": the connection of the other worker's handle_websocket

lifeVars == <<clock, conn, epoch, ws_open, need_reconnect, down_at, w_open>>
schedVars == <<pc, now, token_states, token_refresh_needed, refreshing, token_gen,
               active_tasks, pos_locks, board_state, scan_cursor, global_paint_id, stats>>
queueVars == <<paint_queue, total_size, main_paint_queue, main_total_size>>
senderVars == <<sender_pc, merged_data, send_start, fails>>
rxVars == <<last_rx, invalid_uids>>
encVars == <<paint_args, paint_data>>
cfgVars == <<images_config, ignore_semitransparent, images_data, reload_pixels>>
tgtVars == <<gui_images_data, combined_target_map, all_target_positions, pos_to_image_idx, positions_by_image,
             merged_images>>
tkVars == <<gt_pc, attempt, delay, slept, last_outcome, gt_token, results, invalid_users>>
estVars == <<est_stream, frame_completions, frame_idx, max_completion, max_completion_frame,
             steady_state_reached, steady_frame_count, est_decision>>
sortVars == <<sort_states, sort_ready, sort_assigned, sort_done>>
rrVars == <<passed_over>>
wkVars == <<peer_conn>>
decVars == <<dec_conn, dec_data, dec_offset, dec_out, dec_sent, dec_msgs>>
rlVars == <<rf_pc, stop, stop_requested, last_token_refresh>>
rfVars == <<backoff, last_successful_duration, sessions, last_lifetime, last_exit>>
ppVars == <<cooldown, zero_growth_seconds, pixels_history, last_message_time, last_ping_received,
           pp_next, reconnect_causes>>
hbVars == <<inbox, hb_pc, pong_failures, pings_decoded, pong_sends, pong_errors, msgs_in>>
vars == <<lifeVars, schedVars, impl, queueVars, senderVars, hbVars, wkVars, rrVars, sortVars, estVars, tkVars, cfgVars, tgtVars, encVars, decVars, rlVars, rfVars, ppVars, rxVars, nframes, bursts, enq_log, wire>>

\* the receiver has decoded no record yet
NoRx == [kind |-> "none", pos |-> 0, color |-> 0, status |-> 0]

Min(a, b) == IF a <= b THEN a ELSE b
Max(a, b) == IF a >= b THEN a ELSE b

\* seconds as exact fractions num/den in lowest terms (the code's floats)
RECURSIVE GCD(_, _)
GCD(a, b) == IF b = 0 THEN a ELSE GCD(b, a % b)
Frac(n, d) == [num |-> n \div GCD(n, d), den |-> d \div GCD(n, d)]
FracTimes(x, n, d) == Frac(x.num * n, x.den * d)
FracLeq(x, y) == x.num * y.den <= y.num * x.den
FracMin(x, y) == IF FracLeq(x, y) THEN x ELSE y
FracMax(x, y) == IF FracLeq(x, y) THEN y ELSE x

\* ------------------------------------------------------------------------
\* Byte strings.  Frame number k (the k-th frame paint() built, from 0) is
\* the bytes [FRAME_LEN*k, FRAME_LEN*(k+1)) of the stream of all frame
\* bytes; a byte string is a sequence of items, each a run [lo, hi) of that
\* stream or the single octet 0xfb (Pong).
\* ------------------------------------------------------------------------
Pong == [lo |-> -1, hi |-> 0]
ItemLen(it) == IF it = Pong THEN 1 ELSE it.hi - it.lo

RECURSIVE BytesLen(_)
BytesLen(bs) == IF bs = <<>> THEN 0 ELSE ItemLen(Head(bs)) + BytesLen(Tail(bs))

\* bs followed by one more item, joining two runs that are contiguous
AppendItem(bs, it) ==
    IF it # Pong /\ it.lo >= it.hi THEN bs
    ELSE IF bs # <<>> /\ it # Pong /\ bs[Len(bs)] # Pong /\ bs[Len(bs)].hi = it.lo
         THEN [bs EXCEPT ![Len(bs)].hi = it.hi]
         ELSE Append(bs, it)

RECURSIVE Cat(_, _)
Cat(a, b) == IF b = <<>> THEN a ELSE Cat(AppendItem(a, Head(b)), Tail(b))

\* data[from:to] of Python
RECURSIVE Slice(_, _, _)
Slice(bs, from, to) ==
    IF bs = <<>> \/ to <= 0 \/ from >= to THEN <<>>
    ELSE LET it == Head(bs)
             n == ItemLen(it)
         IN IF from >= n THEN Slice(Tail(bs), from - n, to - n)
            ELSE LET a == Max(from, 0)
                     b == Min(to, n)
                     part == IF it = Pong THEN Pong ELSE [lo |-> it.lo + a, hi |-> it.lo + b]
                 IN Cat(<<part>>, Slice(Tail(bs), 0, to - n))

FrameBytes(k, n) == IF n <= 0 THEN <<>> ELSE <<[lo |-> FRAME_LEN * k, hi |-> FRAME_LEN * (k + n)]>>

\* bs is a whole number of complete frames (and nothing else)
WholeFrames(bs) ==
    \A i \in 1..Len(bs) : bs[i] # Pong /\ bs[i].lo % FRAME_LEN = 0 /\ bs[i].hi % FRAME_LEN = 0
HasPong(bs) == \E i \in 1..Len(bs) : bs[i] = Pong

\* ------------------------------------------------------------------------
\* paint(): build one 31-octet frame and append it to the batcher's queue
\* ------------------------------------------------------------------------
\* tool.append_to_queue / main.append_to_queue, for n frames built in a row
QueueAfterPaint(q, n) == Cat(q, FrameBytes(nframes, n))

PaintFrames(n) ==
    /\ nframes' = nframes + n
    /\ IF impl = "tool"
       THEN /\ paint_queue' = QueueAfterPaint(paint_queue, n)
            /\ total_size' = total_size + FRAME_LEN * n
            /\ UNCHANGED <<main_paint_queue, main_total_size>>
       ELSE /\ main_paint_queue' = QueueAfterPaint(main_paint_queue, n)
            /\ main_total_size' = main_total_size + FRAME_LEN * n
            /\ UNCHANGED <<paint_queue, total_size>>

\* ------------------------------------------------------------------------
\* The scheduler loop of handle_websocket
\* ------------------------------------------------------------------------
InitTokenStates == [u \in Users |-> [last_success |-> 0, fail_count |-> 0, invalid_count |-> 0]]

\* 7.1: a credential is ready when now - last_success >= user_cooldown_seconds
IsReady(ts, u, t) == t - ts[u].last_success >= cooldown

\* list.sort(key = last_success) is stable: ties keep the users_with_tokens order
RECURSIVE InsertByLastSuccess(_, _, _)
InsertByLastSuccess(ts, sorted, u) ==
    IF sorted = <<>> THEN <<u>>
    ELSE IF ts[Head(sorted)].last_success <= ts[u].last_success
         THEN <<Head(sorted)>> \o InsertByLastSuccess(ts, Tail(sorted), u)
         ELSE <<u>> \o sorted

RECURSIVE SortByLastSuccess(_, _, _)
SortByLastSuccess(ts, list, sorted) ==
    IF list = <<>> THEN sorted
    ELSE SortByLastSuccess(ts, Tail(list), InsertByLastSuccess(ts, sorted, Head(list)))

users_with_tokens == [i \in 1..NumUsers |-> i]

\* the ready credentials in the order of the configuration
ReadyTokensUnsorted(users, ts, t) == SelectSeq(users, LAMBDA u : IsReady(ts, u, t))

\* 7.1 for a list of credentials: the filter, then ready_tokens.sort(...)
ReadyTokensOf(users, ts, t) ==
    SortByLastSuccess(ts, SelectSeq(users, LAMBDA u : IsReady(ts, u, t)), <<>>)

ReadyTokens(ts, t) == ReadyTokensOf(users_with_tokens, ts, t)

MaxSteps(token_count) ==
    IF token_count > MANY_TOKENS
    THEN Min(total_targets, token_count * SCAN_FACTOR_MANY)
    ELSE Min(total_targets, token_count * SCAN_FACTOR_FEW)

\* the position is skipped while its lock has not expired
Locked(locks, pos, t) == locks[pos] # NoLock /\ t < locks[pos]

NeedsPaint(board, locks, pos, t) ==
    /\ target_map[pos] # None
    /\ board[pos] # target_map[pos]
    /\ ~Locked(locks, pos, t)

\* 7.2: the scan of up to max_steps positions from scan_cursor
RECURSIVE Scan(_, _, _, _, _, _, _)
Scan(board, locks, t, ready, steps, max_steps, acc) ==
    IF ready = <<>> \/ steps >= max_steps
    THEN [assigned |-> acc, steps |-> steps]
    ELSE LET idx == (scan_cursor + steps) % total_targets
             pos == target_positions[idx + 1]
         IN IF NeedsPaint(board, locks, pos, t)
            THEN Scan(board, locks, t, Tail(ready), steps + 1, max_steps,
                      Append(acc, [uid |-> Head(ready), pos |-> pos]))
            ELSE Scan(board, locks, t, ready, steps + 1, max_steps, acc)

\* 1: active_tasks older than 5 s are dropped
FreshTasks(tasks, t) == {k \in tasks : ~(t - k.time > ACTIVE_TASK_TTL)}

\* the periodic clean-up of pos_locks removes the expired entries
\* a clean-up that empties the table
GcLocksAll(locks, t) == [p \in Coords |-> NoLock]

GcLocks(locks, t) == [p \in Coords |-> IF locks[p] # NoLock /\ t >= locks[p] THEN NoLock ELSE locks[p]]

\* what the lock of an assigned position is set to
LockDeadline(t) == t + cooldown

\* what last_success of the credential of an assigned frame is set to
CooldownStart(t) == t

\* a paint id is kept as two 16-bit halves [hi, lo], its value hi * 65536 + lo
ZeroId == [hi |-> 0, lo |-> 0]

\* (global_paint_id + n) % 4294967296
IdPlus(id, n) ==
    [lo |-> (id.lo + n) % PAINT_ID_HALF,
     hi |-> (id.hi + ((id.lo + n) \div PAINT_ID_HALF)) % PAINT_ID_HALF]

\* only the frames sent are counted at the enqueue
StatsSentOnly(st, n) == [sent |-> st.sent + n, success |-> st.success]

\* stats['sent'] += 1; stats['success'] += 1, for each of the n frames
StatsAfter(st, n) == [sent |-> st.sent + n, success |-> st.success + n]

\* the cursor stays where the scan began
CursorKept(cursor, steps) == cursor

\* scan_cursor = (start_cursor + steps) % total_targets
CursorAfter(cursor, steps) == (cursor + steps) % total_targets

\* 7: the allocation at the scheduler's time t (token filter, scan, assignment)
Allocate(t, ts, tasks, locks) ==
    LET ready == ReadyTokens(ts, t)
        res == IF ready = <<>> THEN [assigned |-> <<>>, steps |-> 0]
               ELSE Scan(board_state, locks, t, ready, 0, MaxSteps(Len(ready)), <<>>)
        A == res.assigned
        n == Len(A)
        newIds == {IdPlus(global_paint_id, i - 1) : i \in 1..n}
    IN /\ nframes + n <= MaxFrames
       /\ token_states' = [u \in Users |->
              IF \E i \in 1..n : A[i].uid = u
              THEN [ts[u] EXCEPT !.last_success = CooldownStart(t)]
              ELSE ts[u]]
       /\ pos_locks' = [p \in Coords |->
              IF \E i \in 1..n : A[i].pos = p THEN LockDeadline(t) ELSE locks[p]]
       /\ active_tasks' = {k \in tasks : k.id \notin newIds} \cup
              {[id |-> IdPlus(global_paint_id, i - 1), pos |-> A[i].pos,
                color |-> target_map[A[i].pos], uid |-> A[i].uid, time |-> t] : i \in 1..n}
       /\ global_paint_id' = IdPlus(global_paint_id, n)
       /\ stats' = StatsAfter(stats, n)
       /\ scan_cursor' = IF ready = <<>> THEN scan_cursor
                         ELSE CursorAfter(scan_cursor, res.steps)
       /\ passed_over' = [p \in Coords |->
              IF ready = <<>> THEN passed_over[p]
              ELSE IF NeedsPaint(board_state, locks, p, t) /\ ~\E i \in 1..n : A[i].pos = p
                   THEN passed_over[p] + 1 ELSE 0]
       /\ enq_log' = enq_log \o [i \in 1..n |->
              [uid |-> A[i].uid, pos |-> A[i].pos, t |-> clock, stamp |-> t, epoch |-> epoch]]
       /\ PaintFrames(n)

\* ------------------------------------------------------------------------
\* tool.py batcher: get_merged_data, filter_pong_from_data, send_paint_data
\* ------------------------------------------------------------------------
Conns == {"rw", "w0"}

\* filter_pong_from_data: drops every 0xfb unit, keeps every complete paint
\* frame, stops at an incomplete one
RECURSIVE filter_pong_from_data(_)
filter_pong_from_data(data) ==
    IF data = <<>> THEN <<>>
    ELSE LET it == Head(data)
         IN IF it = Pong THEN filter_pong_from_data(Tail(data))
            ELSE LET whole == ((it.hi - it.lo) \div FRAME_LEN) * FRAME_LEN
                 IN IF whole = it.hi - it.lo
                    THEN Cat(<<it>>, filter_pong_from_data(Tail(data)))
                    ELSE Cat(<<>>, <<[lo |-> it.lo, hi |-> it.lo + whole]>>)

\* the data put back in the queue after a failed send
Requeued(q, data) == Cat(q, filter_pong_from_data(data))

\* the chunk of merged_data the chunk loop sends at offset start
ToolChunk(data, start) ==
    IF BytesLen(data) <= MAX_PACKET THEN data
    ELSE Slice(data, start, start + MAX_PACKET)

ToolLastChunk(data, start) ==
    BytesLen(data) <= MAX_PACKET \/ start + MAX_PACKET >= BytesLen(data)

\* the sender wakes from its sleep and takes the whole queue (get_merged_data)
ToolSenderWake(c) ==
    /\ impl = "tool"
    /\ sender_pc[c] = "sleep"
    /\ paint_queue # <<>>
    /\ merged_data' = [merged_data EXCEPT ![c] = paint_queue]
    /\ send_start' = [send_start EXCEPT ![c] = 0]
    /\ sender_pc' = [sender_pc EXCEPT ![c] = "send"]
    /\ paint_queue' = <<>>
    /\ total_size' = 0
    /\ UNCHANGED <<main_paint_queue, main_total_size, fails, wire>>

\* await ws.send(...) returns: one message is on the wire
ToolSenderSendOk(c) ==
    /\ impl = "tool"
    /\ sender_pc[c] = "send"
    /\ wire' = [wire EXCEPT ![c] = Append(@, ToolChunk(merged_data[c], send_start[c]))]
    /\ IF ToolLastChunk(merged_data[c], send_start[c])
       THEN /\ sender_pc' = [sender_pc EXCEPT ![c] = "sleep"]
            /\ merged_data' = [merged_data EXCEPT ![c] = <<>>]
            /\ send_start' = [send_start EXCEPT ![c] = 0]
       ELSE /\ send_start' = [send_start EXCEPT ![c] = @ + MAX_PACKET]
            /\ UNCHANGED <<sender_pc, merged_data>>
    /\ UNCHANGED <<queueVars, fails>>

\* await ws.send(...) raises (a timeout or another exception that leaves the
\* task running): the whole merged_data goes back to the end of the queue
ToolSenderSendFail(c) ==
    /\ impl = "tool"
    /\ sender_pc[c] = "send"
    /\ fails < MaxFails
    /\ fails' = fails + 1
    /\ paint_queue' = Requeued(paint_queue, merged_data[c])
    /\ total_size' = total_size + BytesLen(filter_pong_from_data(merged_data[c]))
    /\ sender_pc' = [sender_pc EXCEPT ![c] = "sleep"]
    /\ merged_data' = [merged_data EXCEPT ![c] = <<>>]
    /\ send_start' = [send_start EXCEPT ![c] = 0]
    /\ UNCHANGED <<main_paint_queue, main_total_size, wire>>

\* the process is replaced (restart_script: os.execv) after a send on a closed
\* connection; the data put back in the queue dies with the old process
ToolSenderSendClosed(c) ==
    /\ impl = "tool"
    /\ sender_pc[c] = "send"
    /\ fails < MaxFails
    /\ fails' = fails + 1
    /\ paint_queue' = <<>>
    /\ total_size' = 0
    /\ sender_pc' = [k \in Conns |-> "sleep"]
    /\ merged_data' = [k \in Conns |-> <<>>]
    /\ send_start' = [k \in Conns |-> 0]
    /\ UNCHANGED <<main_paint_queue, main_total_size, wire>>

\* ------------------------------------------------------------------------
\* main.py batcher: get_merged_data(max_size), send_paint_data
\* ------------------------------------------------------------------------
\* the size get_merged_data extracts: whole pixels, at most max_size bytes
ActualSize(ts, max_size) == Min(ts, (max_size \div FRAME_LEN) * FRAME_LEN)

\* "if the amount is small and not urgent, wait for more"
HeldBack(ts, max_size) ==
    ActualSize(ts, max_size) < HOLD_BACK_BYTES /\ ts < max_size \div 2

\* get_merged_data: None (<<>>) or the first actual_size bytes of the queue;
\* every chunk of the queue is one 31-octet frame, so the chunk loop moves
\* whole chunks until offset = actual_size
get_merged_data(q, ts, max_size) ==
    IF q = <<>> \/ HeldBack(ts, max_size) THEN <<>>
    ELSE Slice(q, 0, ActualSize(ts, max_size))

MainSenderWake(c) ==
    /\ impl = "main"
    /\ sender_pc[c] = "sleep"
    /\ main_paint_queue # <<>>
    /\ LET data == get_merged_data(main_paint_queue, main_total_size, max_packet_size)
       IN /\ data # <<>>
          /\ merged_data' = [merged_data EXCEPT ![c] = data]
          /\ main_paint_queue' = Slice(main_paint_queue, BytesLen(data), BytesLen(main_paint_queue))
          /\ main_total_size' = main_total_size - BytesLen(data)
    /\ sender_pc' = [sender_pc EXCEPT ![c] = "send"]
    /\ UNCHANGED <<paint_queue, total_size, send_start, fails, wire>>

MainSenderSendOk(c) ==
    /\ impl = "main"
    /\ sender_pc[c] = "send"
    /\ wire' = [wire EXCEPT ![c] = Append(@, merged_data[c])]
    /\ sender_pc' = [sender_pc EXCEPT ![c] = "sleep"]
    /\ merged_data' = [merged_data EXCEPT ![c] = <<>>]
    /\ UNCHANGED <<queueVars, send_start, fails>>

\* websockets.ConnectionClosed: the data is lost, the loop goes on but finds
\* the connection no longer open; any other exception: break, the loop ends
MainSenderSendFail(c, closed) ==
    /\ impl = "main"
    /\ sender_pc[c] = "send"
    /\ fails < MaxFails
    /\ fails' = fails + 1
    /\ sender_pc' = [sender_pc EXCEPT ![c] = IF closed THEN "closed" ELSE "exit"]
    /\ merged_data' = [merged_data EXCEPT ![c] = <<>>]
    /\ UNCHANGED <<queueVars, send_start, wire>>

\* ------------------------------------------------------------------------
\* Heartbeat: receiver() of the read/write connection and
\* write_only_worker.heartbeat_handler of a write-only connection
\* ------------------------------------------------------------------------
Records == {"fc", "ff", "fa"}
Messages == UNION {[1..n -> Records] : n \in 1..MaxMsgLen}

\* `async for message in ws` yields the next message
DeliverMessage(c, m) ==
    /\ hb_pc[c] = "recv"
    /\ msgs_in < MaxMsgs
    /\ msgs_in' = msgs_in + 1
    /\ inbox' = [inbox EXCEPT ![c] = m]
    /\ hb_pc' = [hb_pc EXCEPT ![c] = "decode"]
    /\ UNCHANGED <<pong_failures, pings_decoded, pong_sends, pong_errors, wire, need_reconnect>>

\* one turn of `while offset < len(data)`: the next record is decoded; a 0xfc
\* goes on to `await ws.send(bytes([0xfb]))`
DecodeRecord(c) ==
    /\ hb_pc[c] = "decode"
    /\ IF inbox[c] = <<>>
       THEN /\ hb_pc' = [hb_pc EXCEPT ![c] = "recv"]
            /\ UNCHANGED <<inbox, pings_decoded>>
       ELSE /\ inbox' = [inbox EXCEPT ![c] = Tail(@)]
            /\ IF Head(inbox[c]) = "fc"
               THEN /\ pings_decoded' = [pings_decoded EXCEPT ![c] = @ + 1]
                    /\ hb_pc' = [hb_pc EXCEPT ![c] = "pong"]
               ELSE UNCHANGED <<pings_decoded, hb_pc>>
    /\ UNCHANGED <<pong_failures, pong_sends, pong_errors, msgs_in, wire, need_reconnect>>

\* the Pong glued to the paint data last sent instead of being a message of its own
PongViaBatch(w, c) ==
    IF w[c] = <<>> THEN [w EXCEPT ![c] = <<<<Pong>>>>]
    ELSE [w EXCEPT ![c][Len(w[c])] = Append(@, Pong)]

\* where the Pong of a decoded Ping goes: straight onto the connection
PongToWire(w, c) == [w EXCEPT ![c] = Append(@, <<Pong>>)]

\* ws.send(bytes([0xfb])) returns
PongSendOk(c) ==
    /\ hb_pc[c] = "pong"
    /\ pong_sends' = [pong_sends EXCEPT ![c] = @ + 1]
    /\ wire' = PongToWire(wire, c)
    /\ pong_failures' = IF c = "rw" THEN 0 ELSE pong_failures
    /\ hb_pc' = [hb_pc EXCEPT ![c] = "decode"]
    /\ UNCHANGED <<inbox, pings_decoded, pong_errors, msgs_in, need_reconnect>>

\* ws.send(bytes([0xfb])) raises: ConnectionClosed ends the handler; another
\* exception ends the write-only handler, and on the read/write connection
\* counts towards the three failures that request a reconnect
PongSendFail(c, closed) ==
    /\ hb_pc[c] = "pong"
    /\ fails < MaxFails
    /\ fails' = fails + 1
    /\ pong_errors' = [pong_errors EXCEPT ![c] = @ + 1]
    /\ IF closed \/ c # "rw"
       THEN /\ hb_pc' = [hb_pc EXCEPT ![c] = "done"]
            /\ UNCHANGED <<pong_failures, need_reconnect>>
       ELSE /\ pong_failures' = pong_failures + 1
            /\ IF pong_failures + 1 >= PONG_FAIL_LIMIT
               THEN /\ need_reconnect' = TRUE
                    /\ hb_pc' = [hb_pc EXCEPT ![c] = "done"]
               ELSE /\ hb_pc' = [hb_pc EXCEPT ![c] = "decode"]
                    /\ UNCHANGED need_reconnect
    /\ UNCHANGED <<inbox, pings_decoded, pong_sends, msgs_in, wire>>

\* ------------------------------------------------------------------------
\* handle_websocket: start, scheduler iterations, receiver dispatch, exit
\* ------------------------------------------------------------------------
NoBoard == [p \in Coords |-> None]
NoLocks == [p \in Coords |-> NoLock]

\* fetch_board_snapshot: {} when every attempt failed, else the whole board
\* ------------------------------------------------------------------------
\* The target picture: layers, their pixels and the painting order
\* ------------------------------------------------------------------------

Modes == {"horizontal", "concentric", "random"}

RangeOf(seq) == {seq[i] : i \in 1..Len(seq)}

\* a pixel is <<r, g, b, a>>; an alpha of 0 is skipped, and one strictly
\* between 0 and 255 when the caller's config asks for it (config = None asks
\* for nothing)
NoneConfig == {}
Kept(p, config) ==
    /\ p[4] # 0
    /\ ~("ignore_semitransparent" \in config /\ 0 < p[4] /\ p[4] < 255)

\* every position a layer covers counts
InCanvasUnchecked(abs_x, abs_y) == TRUE

\* if 0 <= abs_x < 1000 and 0 <= abs_y < 600
InCanvas(abs_x, abs_y) == 0 <= abs_x /\ abs_x < CANVAS_W /\ 0 <= abs_y /\ abs_y < CANVAS_H

\* {(abs_x, abs_y): (r, g, b)} of one layer
build_target_map(pixels, width, height, start_x, start_y, config) ==
    LET kept == {q \in (0..(width - 1)) \X (0..(height - 1)) :
                    /\ q[2] * width + q[1] < Len(pixels)
                    /\ Kept(pixels[q[2] * width + q[1] + 1], config)
                    /\ InCanvas(start_x + q[1], start_y + q[2])}
    IN  [c \in {<<start_x + q[1], start_y + q[2]>> : q \in kept} |->
            LET p == pixels[(c[2] - start_y) * width + (c[1] - start_x) + 1]
            IN  <<p[1], p[2], p[3]>>]

\* coords = [(x, y) for y in range(height) for x in range(width)]
RowMajor(width, height) ==
    [i \in 1..(width * height) |-> <<(i - 1) % width, (i - 1) \div width>>]

\* twice max(abs(x - cx), abs(y - cy)) with cx = (width - 1) / 2, cy = (height - 1) / 2
Abs(n) == IF n < 0 THEN 0 - n ELSE n
Ring(q, width, height) == Max(Abs(2 * q[1] - (width - 1)), Abs(2 * q[2] - (height - 1)))

\* sorted(coords, key=...): stable, the smallest key first
RECURSIVE SortedByRing(_, _, _, _)
SortedByRing(coords, width, height, k) ==
    IF k > width + height THEN <<>>
    ELSE SelectSeq(coords, LAMBDA q : Ring(q, width, height) = k)
            \o SortedByRing(coords, width, height, k + 1)

\* random.Random(width * 10007 + height * 97).shuffle(coords): one fixed
\* permutation per size; the one of CPython's generator for 3 x 2
SeededShuffle(width, height) ==
    IF width = 3 /\ height = 2
    THEN <<(<<1, 1>>), (<<2, 1>>), (<<2, 0>>), (<<1, 0>>), (<<0, 0>>), (<<0, 1>>)>>
    ELSE RowMajor(width, height)

get_draw_order(mode, width, height) ==
    CASE mode = "horizontal" -> RowMajor(width, height)
      [] mode = "concentric" -> SortedByRing(RowMajor(width, height), width, height, 0)
      [] mode = "random"     -> SeededShuffle(width, height)
      [] OTHER               -> RowMajor(width, height)

\* the enabled entries of config['images'], each with its index in the config
RECURSIVE LoadFrom(_, _)
LoadFrom(config, i) ==
    IF i > Len(config) THEN <<>>
    ELSE (IF config[i].enabled
          THEN <<[pixels |-> config[i].pixels, width |-> config[i].width,
                  height |-> config[i].height, start_x |-> config[i].start_x,
                  start_y |-> config[i].start_y, draw_mode |-> config[i].draw_mode,
                  weight |-> config[i].weight, config_index |-> i - 1]>>
          ELSE <<>>) \o LoadFrom(config, i + 1)

load_all_images(config) == LoadFrom(config, 1)

\* the lightest layer first
RECURSIVE SortedImagesAscending(_)
SortedImagesAscending(images) ==
    IF images = <<>> THEN <<>>
    ELSE LET low == CHOOSE w \in {images[i].weight : i \in 1..Len(images)} :
                        \A i \in 1..Len(images) : images[i].weight >= w
         IN  SelectSeq(images, LAMBDA img : img.weight = low)
                \o SortedImagesAscending(SelectSeq(images, LAMBDA img : img.weight # low))

\* sorted(indexed, key=weight, reverse=True): stable, the heaviest layer first
RECURSIVE SortedImages(_)
SortedImages(images) ==
    IF images = <<>> THEN <<>>
    ELSE LET top == CHOOSE w \in {images[i].weight : i \in 1..Len(images)} :
                        \A i \in 1..Len(images) : images[i].weight <= w
         IN  SelectSeq(images, LAMBDA img : img.weight = top)
                \o SortedImages(SelectSeq(images, LAMBDA img : img.weight # top))

\* the absolute coordinates of a layer in its drawing order
OrderedAbs(img) ==
    LET ordered == get_draw_order(img.draw_mode, img.width, img.height)
    IN  [i \in 1..Len(ordered) |-> <<img.start_x + ordered[i][1], img.start_y + ordered[i][2]>>]

NoTarget ==
    [combined_target_map |-> <<>>, positions_by_mode |-> [m \in Modes |-> <<>>],
     pos_to_image_idx |-> <<>>]

\* the loop over sorted_images: a coordinate goes to the first layer that has it
RECURSIVE MergeFrom(_, _)
MergeFrom(sorted, acc) ==
    IF sorted = <<>> THEN acc
    ELSE LET img == Head(sorted)
             own == build_target_map(img.pixels, img.width, img.height,
                                     img.start_x, img.start_y, NoneConfig)
             added == SelectSeq(OrderedAbs(img),
                                LAMBDA c : c \in DOMAIN own
                                           /\ c \notin DOMAIN acc.combined_target_map)
         IN  MergeFrom(Tail(sorted),
                 [combined_target_map |->
                      [c \in DOMAIN acc.combined_target_map \cup RangeOf(added) |->
                          IF c \in DOMAIN acc.combined_target_map
                          THEN acc.combined_target_map[c] ELSE own[c]],
                  positions_by_mode |->
                      [acc.positions_by_mode EXCEPT ![img.draw_mode] = @ \o added],
                  pos_to_image_idx |->
                      [c \in DOMAIN acc.pos_to_image_idx \cup RangeOf(added) |->
                          IF c \in DOMAIN acc.pos_to_image_idx
                          THEN acc.pos_to_image_idx[c] ELSE img.config_index]])

merge_target_maps(images) == MergeFrom(SortedImages(images), NoTarget)

\* for mode in ['horizontal', 'concentric', 'random']: target_positions.extend(...)
TargetPositions(positions_by_mode) ==
    positions_by_mode["horizontal"] \o positions_by_mode["concentric"]
        \o positions_by_mode["random"]

\* positions_by_image[idx].append(pos) for pos in target_positions
PositionsByImage(positions, owner) ==
    [idx \in {owner[c] : c \in DOMAIN owner} |->
        SelectSeq(positions, LAMBDA c : owner[c] = idx)]

\* handle_websocket takes the target merged at start-up (precomputed_target)
LoadTargets ==
    LET result == merge_target_maps(images_data)
        positions == TargetPositions(result.positions_by_mode)
    IN  /\ combined_target_map' = result.combined_target_map
        /\ pos_to_image_idx' = result.pos_to_image_idx
        /\ all_target_positions' = positions
        /\ positions_by_image' = PositionsByImage(positions, result.pos_to_image_idx)
        /\ gui_images_data' = images_data
        /\ merged_images' = images_data

Snapshots == {NoBoard} \cup [Coords -> Colors]

\* board_state = {}; snapshot = fetch_board_snapshot(); if snapshot: board_state = snapshot.copy()
BoardAtStart(old, snapshot) == snapshot

\* token_states = {uid: {'last_success': 0.0, ...}} at every start of handle_websocket
TokenStatesAtStart(old) == InitTokenStates

\* pos_locks = {} at every start of handle_websocket
LocksAtStart(old) == NoLocks

\* run_forever calls handle_websocket: a new connection and fresh locals
HandleWebsocketStart(snapshot) ==
    /\ conn = "down"
    /\ epoch = 0 \/ clock - down_at >= BACKOFF_MIN
    /\ epoch < MaxEpoch
    /\ conn' = "up"
    /\ epoch' = epoch + 1
    /\ ws_open' = TRUE
    /\ need_reconnect' = FALSE
    /\ paint_queue' = <<>>
    /\ total_size' = 0
    /\ sender_pc' = [c \in Conns |-> "sleep"]
    /\ merged_data' = [c \in Conns |-> <<>>]
    /\ send_start' = [c \in Conns |-> 0]
    /\ board_state' = BoardAtStart(board_state, snapshot)
    /\ token_states' = TokenStatesAtStart(token_states)
    /\ token_refresh_needed' = {}
    /\ refreshing' = {}
    /\ active_tasks' = {}
    /\ pos_locks' = LocksAtStart(pos_locks)
    /\ scan_cursor' = 0
    /\ global_paint_id' = ZeroId
    /\ stats' = [sent |-> 0, success |-> 0]
    /\ pc' = "loop"
    /\ w_open' = "open"
    /\ last_rx' = NoRx
    /\ zero_growth_seconds' = 0
    /\ pixels_history' = <<>>
    /\ last_message_time' = clock
    /\ last_ping_received' = clock
    /\ pp_next' = clock
    /\ reconnect_causes' = {}
    /\ stop' = FALSE
    /\ rf_pc' = "session"
    /\ LoadTargets
    /\ passed_over' = [p \in Coords |-> 0]
    /\ UNCHANGED <<clock, down_at, now, invalid_uids, cooldown, token_gen, impl, main_paint_queue, main_total_size,
                   fails, hbVars, wkVars, sortVars, estVars, tkVars, cfgVars, encVars, decVars, stop_requested, last_token_refresh, rfVars, nframes, bursts, enq_log, wire>>

\* one iteration of `while True` up to its next await: now is sampled, stale
\* tasks and (every 1000th loop) expired locks are dropped; then either the
\* refresh of invalid tokens is awaited or the allocation runs at once
SchedIterate(gc) ==
    /\ conn = "up"
    /\ pc = "loop"
    /\ ~need_reconnect
    /\ ~reload_pixels
    /\ ~stop
    /\ now' = clock
    /\ LET tasks == FreshTasks(active_tasks, clock)
           locks == IF gc THEN GcLocks(pos_locks, clock) ELSE pos_locks
       IN IF token_refresh_needed # {}
          THEN /\ pc' = "refresh"
               /\ refreshing' = token_refresh_needed
               /\ token_refresh_needed' = {}
               /\ active_tasks' = tasks
               /\ pos_locks' = locks
               /\ UNCHANGED <<token_states, scan_cursor, global_paint_id, stats,
                              queueVars, nframes, enq_log, passed_over>>
          ELSE /\ Allocate(clock, token_states, tasks, locks)
               /\ UNCHANGED <<pc, refreshing, token_refresh_needed>>
    /\ UNCHANGED <<lifeVars, token_gen, board_state, impl, senderVars, hbVars, wkVars, sortVars, estVars, tkVars, cfgVars, tgtVars, encVars, decVars, rlVars, rfVars, ppVars, rxVars, bursts, wire>>

\* refresh_tokens_async() returns with the uids whose new token was obtained;
\* their counters are reset and the same iteration goes on to the allocation
SchedRefreshDone(refreshed) ==
    /\ conn = "up"
    /\ pc = "refresh"
    /\ refreshed \subseteq refreshing
    /\ token_gen' = [u \in Users |-> IF u \in refreshed THEN token_gen[u] + 1 ELSE token_gen[u]]
    /\ LET ts == [u \in Users |->
                    IF u \in refreshed
                    THEN [token_states[u] EXCEPT !.fail_count = 0, !.invalid_count = 0]
                    ELSE token_states[u]]
       IN Allocate(now, ts, active_tasks, pos_locks)
    /\ pc' = "loop"
    /\ refreshing' = {}
    /\ invalid_uids' = invalid_uids \ refreshed
    /\ UNCHANGED <<lifeVars, now, token_refresh_needed, board_state, impl, senderVars,
                   hbVars, wkVars, sortVars, estVars, tkVars, cfgVars, tgtVars, encVars, decVars, rlVars, rfVars, ppVars, last_rx, bursts, wire>>

\* the loop breaks (need_reconnect, the closed socket is detected, or the stop
\* flag is seen), the background tasks are cancelled and handle_websocket
\* returns; a sender cancelled inside ws.send puts its merged_data back in the
\* queue; run_forever then leaves its loop if the stop flag is set
SchedExit ==
    /\ conn = "up"
    /\ pc = "loop"
    /\ need_reconnect \/ ~ws_open \/ stop
    /\ rf_pc' = IF stop THEN "returned" ELSE "wait"
    /\ conn' = "down"
    /\ down_at' = clock
    /\ w_open' = "none"
    /\ paint_queue' = Requeued(Requeued(paint_queue, merged_data["rw"]), merged_data["w0"])
    /\ total_size' = total_size + BytesLen(filter_pong_from_data(merged_data["rw"]))
                                + BytesLen(filter_pong_from_data(merged_data["w0"]))
    /\ sender_pc' = [c \in Conns |-> "sleep"]
    /\ merged_data' = [c \in Conns |-> <<>>]
    /\ send_start' = [c \in Conns |-> 0]
    /\ UNCHANGED <<clock, epoch, ws_open, need_reconnect, schedVars, impl, stop, stop_requested,
                   last_token_refresh, main_paint_queue, main_total_size, fails, hbVars, wkVars, rrVars, sortVars, estVars, tkVars, cfgVars, tgtVars, encVars, decVars, rfVars, ppVars, rxVars, nframes, bursts, enq_log, wire>>

\* the 0xfa write is lost
MirrorAfter0xfaDropped(board, p, c) == board

\* board_state[(x, y)] = (r, g, b)
MirrorAfter0xfa(board, p, c) == [board EXCEPT ![p] = c]

\* receiver(): a 0xfa record (x, y, r, g, b)
Recv0xfa(p, c) ==
    /\ conn = "up"
    /\ ws_open
    /\ board_state' = MirrorAfter0xfa(board_state, p, c)
    /\ last_rx' = [kind |-> "fa", pos |-> p, color |-> c, status |-> 0]
    /\ UNCHANGED <<lifeVars, invalid_uids, pc, now, token_states, token_refresh_needed, refreshing, token_gen,
                   active_tasks, pos_locks, scan_cursor, global_paint_id, stats,
                   impl, queueVars, senderVars, hbVars, wkVars, rrVars, sortVars, estVars, tkVars, cfgVars, tgtVars, encVars, decVars, rlVars, rfVars, ppVars, nframes, bursts, enq_log, wire>>

\* receiver(): a 0xff record (paint_id, status) whose task is still recorded
Recv0xff(k, status) ==
    /\ conn = "up"
    /\ ws_open
    /\ k \in active_tasks
    /\ active_tasks' = active_tasks \ {k}
    /\ last_rx' = [kind |-> "ff", pos |-> k.pos, color |-> k.color, status |-> status]
    /\ invalid_uids' = IF status = STATUS_TOKEN_INVALID
                       THEN invalid_uids \cup {k.uid}
                       ELSE invalid_uids
    /\ IF status = STATUS_SUCCESS
       THEN /\ token_states' = [token_states EXCEPT ![k.uid].fail_count = 0,
                                                    ![k.uid].invalid_count = 0]
            /\ board_state' = [board_state EXCEPT ![k.pos] = k.color]
            /\ UNCHANGED token_refresh_needed
       ELSE /\ board_state' = board_state
            /\ IF status = STATUS_TOKEN_INVALID
               THEN /\ token_states' = [token_states EXCEPT ![k.uid].fail_count = @ + 1,
                                                            ![k.uid].invalid_count = @ + 1]
                    /\ token_refresh_needed' = token_refresh_needed \cup {k.uid}
               ELSE /\ token_states' = [token_states EXCEPT ![k.uid].fail_count = @ + 1]
                    /\ UNCHANGED token_refresh_needed
    /\ UNCHANGED <<lifeVars, pc, now, refreshing, token_gen, pos_locks, scan_cursor,
                   global_paint_id, stats, impl, queueVars, senderVars, hbVars, wkVars, rrVars, sortVars, estVars, tkVars, cfgVars, tgtVars, encVars, decVars, rlVars, rfVars, ppVars,
                   nframes, bursts, enq_log, wire>>

\* the server (or the network) closes the read/write socket
ServerClose ==
    /\ conn = "up"
    /\ ws_open
    /\ ws_open' = FALSE
    /\ UNCHANGED <<clock, conn, epoch, need_reconnect, down_at, w_open, schedVars, impl, queueVars,
                   senderVars, hbVars, wkVars, rrVars, sortVars, estVars, tkVars, cfgVars, tgtVars, encVars, decVars, rlVars, rfVars, ppVars, rxVars, nframes, bursts, enq_log, wire>>

\* progress_printer(): the zero-growth and silence checks request a reconnect
\* (their time thresholds are left open here)
ProgressPrinterFlag ==
    /\ conn = "up"
    /\ ~need_reconnect
    /\ need_reconnect' = TRUE
    /\ UNCHANGED <<clock, conn, epoch, ws_open, down_at, w_open, schedVars, impl, queueVars,
                   senderVars, hbVars, wkVars, rrVars, sortVars, estVars, tkVars, cfgVars, tgtVars, encVars, decVars, rlVars, rfVars, ppVars, rxVars, nframes, bursts, enq_log, wire>>

Tick ==
    /\ clock < MaxTime
    /\ clock' = clock + 1
    /\ UNCHANGED <<conn, epoch, ws_open, need_reconnect, down_at, w_open, schedVars, impl, queueVars,
                   senderVars, hbVars, wkVars, rrVars, sortVars, estVars, tkVars, cfgVars, tgtVars, encVars, decVars, rlVars, rfVars, ppVars, rxVars, nframes, bursts, enq_log, wire>>

\* ------------------------------------------------------------------------
\* Specifications
\* ------------------------------------------------------------------------
SchedInit ==
    /\ pc = "loop"
    /\ now = 0
    /\ token_states = InitTokenStates
    /\ token_refresh_needed = {}
    /\ refreshing = {}
    /\ token_gen = [u \in Users |-> 0]
    /\ active_tasks = {}
    /\ pos_locks = NoLocks
    /\ board_state = NoBoard
    /\ scan_cursor = 0
    /\ global_paint_id = ZeroId
    /\ stats = [sent |-> 0, success |-> 0]

BatchInit ==
    /\ paint_queue = <<>>
    /\ total_size = 0
    /\ main_paint_queue = <<>>
    /\ main_total_size = 0
    /\ sender_pc = [c \in Conns |-> "sleep"]
    /\ merged_data = [c \in Conns |-> <<>>]
    /\ send_start = [c \in Conns |-> 0]
    /\ fails = 0
    /\ nframes = 0
    /\ bursts = 0
    /\ enq_log = <<>>
    /\ wire = [c \in Conns |-> <<>>]

\* the arguments the scheduler's first frame would get
NoArgs == [x |-> 0, y |-> 0, r |-> 0, g |-> 0, b |-> 0, uid |-> 0,
           token |-> [i \in 1..TOKEN_LEN |-> 0], paint_id |-> ZeroId]

\* nothing loaded before handle_websocket runs
TgtInit ==
    /\ images_data = load_all_images(images_config)
    /\ reload_pixels = FALSE
    /\ gui_images_data = images_data
    /\ combined_target_map = <<>>
    /\ all_target_positions = <<>>
    /\ pos_to_image_idx = <<>>
    /\ positions_by_image = <<>>
    /\ merged_images = <<>>

\* a board that never changes
FlatStream == [peak |-> 0, base |-> 0, step |-> 0, amp |-> 0]

\* a configuration without layers
NoLayers ==
    /\ images_config = <<>>
    /\ ignore_semitransparent = FALSE
    /\ TgtInit
    /\ est_stream = FlatStream
    /\ sort_states = [u \in 1..NumSortUsers |-> [last_success |-> 0]]

Credentials == 1..NumCredentials

\* no token asked for yet
TkInit ==
    /\ gt_pc = [u \in Credentials |-> "post"]
    /\ attempt = [u \in Credentials |-> 0]
    /\ delay = [u \in Credentials |-> FIRST_DELAY]
    /\ slept = [u \in Credentials |-> <<>>]
    /\ last_outcome = [u \in Credentials |-> "none"]
    /\ gt_token = [u \in Credentials |-> None]
    /\ results = <<>>
    /\ invalid_users = {}

NoDecision == [frame |-> 0, frames_since_max |-> 0, volatility_ok |-> FALSE, has_trend |-> FALSE]

\* run_test_phase before its first frame
EstInit ==
    /\ frame_completions = <<>>
    /\ frame_idx = 0
    /\ max_completion = 0
    /\ max_completion_frame = 0
    /\ steady_state_reached = FALSE
    /\ steady_frame_count = 0
    /\ est_decision = NoDecision

SortUsers == [i \in 1..NumSortUsers |-> i]

\* no allocation made
SortInit ==
    /\ sort_ready = <<>>
    /\ sort_assigned = <<>>
    /\ sort_done = FALSE

DecInit ==
    /\ passed_over = [p \in Coords |-> 0]
    /\ peer_conn = "down"
    /\ SortInit
    /\ TkInit
    /\ EstInit
    /\ paint_data = <<>>
    /\ dec_data = <<>>
    /\ dec_offset = 0
    /\ dec_out = <<>>
    /\ dec_sent = <<>>
    /\ dec_msgs = 0

RlInit ==
    /\ rf_pc = "check"
    /\ stop = FALSE
    /\ stop_requested = FALSE
    /\ last_token_refresh = clock

RfInit ==
    /\ backoff = Frac(BACKOFF_MIN, 1)
    /\ last_successful_duration = 0
    /\ sessions = 0
    /\ last_lifetime = 0
    /\ last_exit = "none"

PpInit ==
    /\ zero_growth_seconds = 0
    /\ pixels_history = <<>>
    /\ last_message_time = 0
    /\ last_ping_received = 0
    /\ pp_next = 0
    /\ reconnect_causes = {}

HbInit ==
    /\ inbox = [c \in Conns |-> <<>>]
    /\ hb_pc = [c \in Conns |-> "recv"]
    /\ pong_failures = 0
    /\ pings_decoded = [c \in Conns |-> 0]
    /\ pong_sends = [c \in Conns |-> 0]
    /\ pong_errors = [c \in Conns |-> 0]
    /\ msgs_in = 0
    /\ last_rx = NoRx
    /\ invalid_uids = {}

\* The painter before its first connection, whichever handler is looked at
PainterInit ==
    /\ clock = user_cooldown_seconds
    /\ conn = "down"
    /\ epoch = 0
    /\ ws_open = FALSE
    /\ need_reconnect = FALSE
    /\ down_at = 0
    /\ w_open = "none"
    /\ impl = "tool"
    /\ SchedInit
    /\ BatchInit
    /\ HbInit
    /\ PpInit
    /\ RfInit
    /\ RlInit
    /\ DecInit
    /\ cooldown = user_cooldown_seconds

\* The painter: run_forever, handle_websocket with its scheduler and receiver,
\* the frames going into the tool.py queue
Init == PainterInit /\ dec_conn = "rw" /\ paint_args = NoArgs /\ NoLayers

Next ==
    \/ Tick
    \/ \E snapshot \in Snapshots : HandleWebsocketStart(snapshot)
    \/ \E gc \in BOOLEAN : SchedIterate(gc)
    \/ \E refreshed \in SUBSET Users : SchedRefreshDone(refreshed)
    \/ SchedExit
    \/ \E p \in Coords, c \in Colors : Recv0xfa(p, c)
    \/ \E k \in active_tasks, status \in Statuses : Recv0xff(k, status)
    \/ ServerClose
    \/ ProgressPrinterFlag

Spec == Init /\ [][Next]_vars

\* ------------------------------------------------------------------------
\* The batcher alone: frames arrive in bursts, the senders of the read/write
\* and of a write-only connection empty the queue, sends may fail
\* ------------------------------------------------------------------------
Bursts == {1, BigBurst}

\* k calls of paint() in a row, between two steps of the sender tasks
Paint(k) ==
    /\ bursts < MaxBursts
    /\ bursts' = bursts + 1
    /\ PaintFrames(k)
    /\ UNCHANGED <<lifeVars, schedVars, impl, senderVars, hbVars, wkVars, rrVars, sortVars, estVars, tkVars, cfgVars, tgtVars, encVars, decVars, rlVars, rfVars, ppVars, rxVars, enq_log, wire>>

restOfSender == <<lifeVars, schedVars, impl, hbVars, wkVars, rrVars, sortVars, estVars, tkVars, cfgVars, tgtVars, encVars, decVars, rlVars, rfVars, ppVars, rxVars, nframes, bursts, enq_log>>

SessionInit ==
    /\ clock = 0
    /\ conn = "up"
    /\ epoch = 1
    /\ ws_open = TRUE
    /\ need_reconnect = FALSE
    /\ down_at = 0
    /\ w_open = "open"
    /\ SchedInit
    /\ BatchInit
    /\ HbInit
    /\ PpInit
    /\ RfInit
    /\ RlInit
    /\ DecInit
    /\ dec_conn = "rw"
    /\ paint_args = NoArgs
    /\ NoLayers
    /\ cooldown = user_cooldown_seconds

\* either batcher: the one of tool.py or the one of main.py
BatchSpecInit == SessionInit /\ impl \in {"tool", "main"}

NextBatch ==
    \/ \E k \in Bursts : Paint(k)
    \/ \E c \in Conns : ToolSenderWake(c) /\ UNCHANGED restOfSender
    \/ \E c \in Conns : ToolSenderSendOk(c) /\ UNCHANGED restOfSender
    \/ \E c \in Conns : ToolSenderSendFail(c) /\ UNCHANGED restOfSender
    \/ \E c \in Conns : ToolSenderSendClosed(c) /\ UNCHANGED restOfSender
    \/ \E c \in Conns : MainSenderWake(c) /\ UNCHANGED restOfSender
    \/ \E c \in Conns : MainSenderSendOk(c) /\ UNCHANGED restOfSender
    \/ \E c \in Conns, closed \in BOOLEAN : MainSenderSendFail(c, closed) /\ UNCHANGED restOfSender

SpecBatch == BatchSpecInit /\ [][NextBatch]_vars

\* ------------------------------------------------------------------------
\* One session's connections: single frames, the senders, and the heartbeat
\* of the receiver (read/write) and of heartbeat_handler (write-only)
\* ------------------------------------------------------------------------
restOfHeartbeat == <<clock, conn, epoch, ws_open, down_at, w_open, rxVars, wkVars, rrVars, sortVars, estVars, tkVars, ppVars, rfVars, rlVars, decVars, encVars, cfgVars, tgtVars, schedVars, impl, queueVars,
                     sender_pc, merged_data, send_start, nframes, bursts, enq_log>>

NextConn ==
    \/ bursts < MaxConnBursts /\ Paint(1)
    \/ \E c \in Conns : ToolSenderWake(c) /\ UNCHANGED restOfSender
    \/ \E c \in Conns : ToolSenderSendOk(c) /\ UNCHANGED restOfSender
    \/ \E c \in Conns : ToolSenderSendFail(c) /\ UNCHANGED restOfSender
    \/ \E c \in Conns, m \in Messages : DeliverMessage(c, m) /\ UNCHANGED <<restOfHeartbeat, fails>>
    \/ \E c \in Conns : DecodeRecord(c) /\ UNCHANGED <<restOfHeartbeat, fails>>
    \/ \E c \in Conns : PongSendOk(c) /\ UNCHANGED <<restOfHeartbeat, fails>>
    \/ \E c \in Conns, closed \in BOOLEAN : PongSendFail(c, closed) /\ UNCHANGED restOfHeartbeat

\* handle_websocket starts tool.send_paint_data on each connection
ConnSpecInit == SessionInit /\ impl = "tool"

SpecConn == ConnSpecInit /\ [][NextConn]_vars

\* ------------------------------------------------------------------------
\* The connection pool of one process: the read/write connection with the
\* scheduler, and one write-only connection (writeonly_connections = 2)
\* kept by write_only_worker_with_reconnect
\* ------------------------------------------------------------------------
restOfPoolSender == <<lifeVars, schedVars, impl, hbVars, wkVars, rrVars, sortVars, estVars, tkVars, cfgVars, tgtVars, encVars, decVars, rlVars, rfVars, ppVars, rxVars, nframes, bursts, enq_log>>

\* a sender task wakes up on its open connection
PoolSenderWake(c) ==
    /\ conn = "up"
    /\ IF c = "rw" THEN ws_open ELSE w_open = "open"
    /\ ToolSenderWake(c)
    /\ UNCHANGED restOfPoolSender

PoolSenderSendOk(c) ==
    /\ conn = "up"
    /\ IF c = "rw" THEN ws_open ELSE w_open = "open"
    /\ ToolSenderSendOk(c)
    /\ UNCHANGED restOfPoolSender

\* the write-only connection closes. Its heartbeat_handler ends and the worker
\* cancels the send task (merged_data goes back to the queue); or, when the
\* send task is inside ws.send and is resumed first, ConnectionClosed is
\* raised there and restart_script() replaces the whole process
WriterClose(restart) ==
    /\ conn = "up"
    /\ w_open = "open"
    /\ IF restart
       THEN /\ ToolSenderSendClosed("w0")
            /\ conn' = "down"
            /\ epoch' = 0
            /\ ws_open' = FALSE
            /\ w_open' = "none"
            /\ need_reconnect' = FALSE
            /\ UNCHANGED <<clock, down_at>>
       ELSE /\ w_open' = "closed"
            /\ paint_queue' = Requeued(paint_queue, merged_data["w0"])
            /\ total_size' = total_size + BytesLen(filter_pong_from_data(merged_data["w0"]))
            /\ sender_pc' = [sender_pc EXCEPT !["w0"] = "sleep"]
            /\ merged_data' = [merged_data EXCEPT !["w0"] = <<>>]
            /\ send_start' = [send_start EXCEPT !["w0"] = 0]
            /\ UNCHANGED <<clock, conn, epoch, ws_open, need_reconnect, down_at,
                           main_paint_queue, main_total_size, fails, wire>>
    /\ UNCHANGED <<schedVars, impl, hbVars, wkVars, rrVars, sortVars, estVars, tkVars, cfgVars, tgtVars, encVars, decVars, rlVars, rfVars, ppVars, rxVars, nframes, bursts, enq_log>>

\* write_only_worker_with_reconnect calls write_only_worker again after its sleep
WriterReopen ==
    /\ conn = "up"
    /\ w_open = "closed"
    /\ w_open' = "open"
    /\ UNCHANGED <<clock, conn, epoch, ws_open, need_reconnect, down_at, schedVars, impl,
                   queueVars, senderVars, hbVars, wkVars, rrVars, sortVars, estVars, tkVars, cfgVars, tgtVars, encVars, decVars, rlVars, rfVars, ppVars, rxVars, nframes, bursts, enq_log, wire>>

NextPool ==
    \/ Tick
    \/ \E snapshot \in Snapshots : HandleWebsocketStart(snapshot)
    \/ \E gc \in BOOLEAN : SchedIterate(gc)
    \/ SchedExit
    \/ ServerClose
    \/ \E restart \in BOOLEAN : WriterClose(restart)
    \/ WriterReopen
    \/ \E c \in Conns : PoolSenderWake(c)
    \/ \E c \in Conns : PoolSenderSendOk(c)

SpecPool == Init /\ [][NextPool]_vars

\* ------------------------------------------------------------------------
\* Two worker threads (thread_workers = 2): each runs run_forever and
\* handle_websocket with its own share of the credentials, its own
\* token_states, locks and cursor, and its own connection; both use the one
\* queue of the tool module. The first worker is the painter above. Of the
\* second, the steps that touch the shared queue are kept: its credentials
\* stay in cooldown, so that it enqueues nothing of its own
\* ------------------------------------------------------------------------
restOfPeer == <<lifeVars, schedVars, impl, senderVars, hbVars, rrVars, sortVars, estVars, tkVars, cfgVars, tgtVars, encVars, decVars, rlVars, rfVars, ppVars, rxVars, nframes, bursts, enq_log, wire>>

\* the other worker's handle_websocket has its connection: it empties
\* tool.paint_queue and resets tool.total_size
PeerStart ==
    /\ peer_conn = "down"
    /\ peer_conn' = "up"
    /\ paint_queue' = <<>>
    /\ total_size' = 0
    /\ UNCHANGED <<main_paint_queue, main_total_size>>
    /\ UNCHANGED restOfPeer

\* the other worker's connection ends and its handle_websocket returns
PeerClose ==
    /\ peer_conn = "up"
    /\ peer_conn' = "down"
    /\ UNCHANGED <<queueVars, restOfPeer>>

NextWorkers ==
    \/ Tick
    \/ \E snapshot \in Snapshots : HandleWebsocketStart(snapshot)
    \/ \E gc \in BOOLEAN : SchedIterate(gc)
    \/ SchedExit
    \/ ServerClose
    \/ PoolSenderWake("rw")
    \/ PoolSenderSendOk("rw")
    \/ PeerStart
    \/ PeerClose

SpecWorkers == Init /\ [][NextWorkers]_vars

\* ------------------------------------------------------------------------
\* Connection health: progress_printer's two rules, second by second, with
\* the scheduler loop and the receiver's time stamps
\* ------------------------------------------------------------------------

\* mismatched: the targets whose mirror colour differs (all of them when the
\* mirror is empty)
Mismatched(board) ==
    IF board = NoBoard THEN total_targets
    ELSE Cardinality({i \in 1..total_targets :
                         board[target_positions[i]] # target_map[target_positions[i]]})

\* while pixels_history and now - pixels_history[0][0] > pixels_window_seconds: popleft()
RECURSIVE PruneHistory(_, _)
PruneHistory(h, t) ==
    IF h # <<>> /\ t - Head(h).t > pixels_window_seconds THEN PruneHistory(Tail(h), t) ELSE h

\* pixels_per_sec < 0.01, pixels_per_sec = (p1 - p0) / max(1e-6, t1 - t0) over
\* the window, 0.0 with fewer than two samples
ZeroGrowth(h) ==
    IF Len(h) < 2 THEN TRUE
    ELSE LET dt == h[Len(h)].t - h[1].t
             dp == h[Len(h)].n - h[1].n
         IN IF dt = 0 THEN dp <= 0 ELSE 100 * dp < dt

\* one iteration of progress_printer's loop, up to its sleep(1)
ProgressPrinter ==
    /\ conn = "up"
    /\ clock >= pp_next
    /\ LET h == PruneHistory(Append(pixels_history, [t |-> clock, n |-> stats.success]), clock)
           stalled == /\ Mismatched(board_state) > 0
                      /\ Len(users_with_tokens) > 0
                      /\ ZeroGrowth(h)
           fire == stalled /\ zero_growth_seconds + 1 >= ZERO_GROWTH_RECONNECT_THRESHOLD
           silent == clock - last_message_time > MESSAGE_TIMEOUT
       IN /\ pixels_history' = h
          /\ zero_growth_seconds' = IF stalled /\ ~fire THEN zero_growth_seconds + 1 ELSE 0
          /\ need_reconnect' = (need_reconnect \/ fire \/ silent)
          /\ reconnect_causes' = reconnect_causes
                                   \cup (IF fire THEN {"zero_growth"} ELSE {})
                                   \cup (IF silent THEN {"silence"} ELSE {})
    /\ pp_next' = clock + 1
    /\ UNCHANGED <<clock, conn, epoch, ws_open, down_at, w_open, schedVars, impl, queueVars,
                   senderVars, hbVars, wkVars, rrVars, sortVars, estVars, tkVars, cfgVars, tgtVars, encVars, decVars, rlVars, rfVars, rxVars, cooldown, last_message_time, last_ping_received,
                   nframes, bursts, enq_log, wire>>

\* receiver(): a message arrives (last_message_time) and, when it holds a
\* 0xfc record, last_ping_received is stamped too
ReceiverWake(ping) ==
    /\ conn = "up"
    /\ ws_open
    /\ clock % MsgPeriod = 0
    /\ last_message_time' = clock
    /\ last_ping_received' = IF ping THEN clock ELSE last_ping_received
    /\ UNCHANGED <<lifeVars, schedVars, impl, queueVars, senderVars, hbVars, wkVars, rrVars, sortVars, estVars, tkVars, cfgVars, tgtVars, encVars, decVars, rlVars, rfVars, rxVars,
                   cooldown, zero_growth_seconds, pixels_history, pp_next, reconnect_causes,
                   nframes, bursts, enq_log, wire>>

\* a second passes once the scheduler loop and progress_printer have run in
\* it; a scheduler told to reconnect leaves its loop within the second
StallTick ==
    /\ clock < MaxStallTime
    /\ conn = "up" => (pp_next > clock /\ ~need_reconnect /\ now = clock)
    /\ clock' = clock + 1
    /\ UNCHANGED <<conn, epoch, ws_open, need_reconnect, down_at, w_open, schedVars, impl, queueVars,
                   senderVars, hbVars, wkVars, rrVars, sortVars, estVars, tkVars, cfgVars, tgtVars, encVars, decVars, rlVars, rfVars, rxVars, ppVars, nframes, bursts, enq_log, wire>>

\* a session that has just started, its credentials ready, cooldown
\* StallCooldown
StallInit ==
    /\ clock = StallCooldown
    /\ conn = "up"
    /\ epoch = 1
    /\ ws_open = TRUE
    /\ need_reconnect = FALSE
    /\ down_at = 0
    /\ w_open = "none"
    /\ impl = "tool"
    /\ SchedInit
    /\ BatchInit
    /\ HbInit
    /\ RfInit
    /\ RlInit
    /\ DecInit
    /\ dec_conn = "rw"
    /\ paint_args = NoArgs
    /\ NoLayers
    /\ cooldown = StallCooldown
    /\ zero_growth_seconds = 0
    /\ pixels_history = <<>>
    /\ last_message_time = clock
    /\ last_ping_received = clock
    /\ pp_next = clock
    /\ reconnect_causes = {}

NextStall ==
    \/ StallTick
    \/ \E gc \in BOOLEAN : SchedIterate(gc)
    \/ ProgressPrinter
    \/ \E ping \in BOOLEAN : ReceiverWake(ping)
    \/ SchedExit

SpecStall == StallInit /\ [][NextStall]_vars

\* ------------------------------------------------------------------------
\* run_forever: the backoff after each call of handle_websocket, the call
\* itself reduced to how long it was connected and how it ended
\* ------------------------------------------------------------------------
Lifetimes == {0, SHORT_LIFETIME - 1, SHORT_LIFETIME, MEDIUM_LIFETIME, LONG_LIFETIME - 1, LONG_LIFETIME}
Exits == {"InvalidStatusCode", "TimeoutError", "OSError", "ConnectionClosed", "Exception"}

\* the halving without its floor of 1 s
BackoffAfterReturnNoFloor(b, duration) ==
    IF duration >= LONG_LIFETIME THEN Frac(1, 1)
    ELSE IF duration >= MEDIUM_LIFETIME THEN FracTimes(b, 1, 2)
    ELSE IF duration >= SHORT_LIFETIME THEN FracMin(FracTimes(b, 3, 2), Frac(backoff_max, 1))
    ELSE FracMin(FracTimes(b, 2, 1), Frac(backoff_max, 1))

\* handle_websocket returned its duration
BackoffAfterReturn(b, duration) ==
    IF duration >= LONG_LIFETIME THEN Frac(1, 1)
    ELSE IF duration >= MEDIUM_LIFETIME THEN FracMax(Frac(1, 1), FracTimes(b, 1, 2))
    ELSE IF duration >= SHORT_LIFETIME THEN FracMin(FracTimes(b, 3, 2), Frac(backoff_max, 1))
    ELSE FracMin(FracTimes(b, 2, 1), Frac(backoff_max, 1))

\* handle_websocket raised: the factor depends on the exception and, for a
\* closed connection, on the duration of the last call that returned
BackoffAfterError(b, e, last_duration) ==
    LET factor == CASE e = "InvalidStatusCode" -> Frac(5, 2)
                    [] e = "TimeoutError" -> Frac(9, 5)
                    [] e = "OSError" -> Frac(2, 1)
                    [] e = "ConnectionClosed" ->
                           IF last_duration >= SHORT_LIFETIME THEN Frac(3, 2) ELSE Frac(2, 1)
                    [] OTHER -> Frac(5, 2)
    IN FracMin(FracTimes(b, factor.num, factor.den), Frac(backoff_max, 1))

restOfRunForever == <<lifeVars, schedVars, impl, queueVars, senderVars, hbVars, wkVars, rrVars, sortVars, estVars, tkVars, cfgVars, tgtVars, encVars, decVars, rlVars, rxVars, ppVars,
                      nframes, bursts, enq_log, wire>>

\* duration = await handle_websocket(...) returns after `duration` seconds
SessionReturns(duration) ==
    /\ sessions < MaxSessions
    /\ sessions' = sessions + 1
    /\ last_successful_duration' = duration
    /\ backoff' = BackoffAfterReturn(backoff, duration)
    /\ last_lifetime' = duration
    /\ last_exit' = "return"
    /\ UNCHANGED restOfRunForever

\* await handle_websocket(...) raises e after connection_duration seconds
SessionRaises(e, connection_duration) ==
    /\ sessions < MaxSessions
    /\ sessions' = sessions + 1
    /\ backoff' = BackoffAfterError(backoff, e, last_successful_duration)
    /\ last_lifetime' = connection_duration
    /\ last_exit' = e
    /\ UNCHANGED last_successful_duration
    /\ UNCHANGED restOfRunForever

NextBackoff ==
    \/ \E duration \in Lifetimes : SessionReturns(duration)
    \/ \E e \in Exits, d \in Lifetimes : SessionRaises(e, d)

SpecBackoff == Init /\ [][NextBackoff]_vars

\* ------------------------------------------------------------------------
\* run_forever's loop: the stop check, the periodic refresh of every token,
\* the call of handle_websocket and the backoff wait
\* ------------------------------------------------------------------------

\* the operator (GUI, signal handler) asks the painter to stop
RequestStop ==
    /\ ~stop_requested
    /\ rf_pc # "returned"
    /\ stop' = TRUE
    /\ stop_requested' = TRUE
    /\ UNCHANGED <<lifeVars, schedVars, impl, queueVars, senderVars, hbVars, wkVars, rrVars, sortVars, estVars, tkVars, cfgVars, tgtVars, encVars, decVars, rxVars, ppVars, rfVars,
                   rf_pc, last_token_refresh, nframes, bursts, enq_log, wire>>

\* top of `while True`: leave on the stop flag; otherwise, when the interval
\* has elapsed, fetch every token again (refreshed tells whether that worked)
RfCheck(refreshed) ==
    /\ rf_pc = "check"
    /\ conn = "down"
    /\ IF stop
       THEN /\ rf_pc' = "returned"
            /\ UNCHANGED <<last_token_refresh, token_gen, invalid_uids>>
       ELSE /\ rf_pc' = "call"
            /\ IF clock - last_token_refresh >= token_refresh_interval
               THEN /\ last_token_refresh' = clock
                    /\ token_gen' = [u \in Users |-> IF refreshed THEN token_gen[u] + 1
                                                                   ELSE token_gen[u]]
                    /\ invalid_uids' = IF refreshed THEN {} ELSE invalid_uids
               ELSE UNCHANGED <<last_token_refresh, token_gen, invalid_uids>>
    /\ UNCHANGED <<lifeVars, pc, now, token_states, token_refresh_needed, refreshing, active_tasks,
                   pos_locks, board_state, scan_cursor, global_paint_id, stats, impl, queueVars,
                   senderVars, hbVars, wkVars, rrVars, sortVars, estVars, tkVars, cfgVars, tgtVars, encVars, decVars, last_rx, ppVars, rfVars, stop, stop_requested,
                   nframes, bursts, enq_log, wire>>

\* duration = await handle_websocket(...)
RfCall(snapshot) ==
    /\ rf_pc = "call"
    /\ HandleWebsocketStart(snapshot)

\* the backoff wait: it returns on the stop flag, else the loop starts over
RfWait ==
    /\ rf_pc = "wait"
    /\ rf_pc' = IF stop THEN "returned" ELSE "check"
    /\ UNCHANGED <<lifeVars, schedVars, impl, queueVars, senderVars, hbVars, wkVars, rrVars, sortVars, estVars, tkVars, cfgVars, tgtVars, encVars, decVars, rxVars, ppVars, rfVars,
                   stop, stop_requested, last_token_refresh, nframes, bursts, enq_log, wire>>

NextStop ==
    \/ Tick
    \/ RequestStop
    \/ \E refreshed \in BOOLEAN : RfCheck(refreshed)
    \/ \E snapshot \in Snapshots : RfCall(snapshot)
    \/ \E gc \in BOOLEAN : SchedIterate(gc)
    \/ SchedExit
    \/ RfWait
    \/ ServerClose

SpecStop == Init /\ [][NextStop]_vars

\* the same with every step of the program and of the clock taken in the end;
\* the stop request and the server closing the socket may never happen
SpecStopFair ==
    /\ SpecStop
    /\ WF_vars(Tick)
    /\ WF_vars(\E refreshed \in BOOLEAN : RfCheck(refreshed))
    /\ WF_vars(\E snapshot \in Snapshots : RfCall(snapshot))
    /\ WF_vars(\E gc \in BOOLEAN : SchedIterate(gc))
    /\ WF_vars(SchedExit)
    /\ WF_vars(RfWait)

\* ------------------------------------------------------------------------
\* The opcode loops on the octets of a received message
\* ------------------------------------------------------------------------
LE16(n) == <<n % 256, n \div 256>>
LE32(n) == <<n % 256, (n \div 256) % 256, (n \div 65536) % 256, n \div 16777216>>

\* int.from_bytes(data[from:from+n], 'little'); a slice past the end is short
RECURSIVE FromLE(_, _, _)
FromLE(data, from, n) ==
    IF n = 0 \/ from + 1 > Len(data) THEN 0
    ELSE data[from + 1] + 256 * FromLE(data, from + 1, n - 1)

\* the records the server sends: a ping, a paint result, a pixel update
PingRec == [op |-> OP_PING, id |-> 0, status |-> 0, x |-> 0, y |-> 0, r |-> 0, g |-> 0, b |-> 0]
ResultRec(id, st) == [PingRec EXCEPT !.op = OP_RESULT, !.id = id, !.status = st]
PixelRec(x, y, r, g, b) ==
    [PingRec EXCEPT !.op = OP_PIXEL, !.x = x, !.y = y, !.r = r, !.g = g, !.b = b]
ServerRecords ==
    {PingRec, ResultRec(258, STATUS_SUCCESS), PixelRec(CANVAS_W - 1, CANVAS_H - 1, 1, 2, OP_PING)}

\* the octets of one record on the wire
RecordBytes(rec) ==
    IF rec.op = OP_PING THEN <<OP_PING>>
    ELSE IF rec.op = OP_RESULT THEN <<OP_RESULT>> \o LE32(rec.id) \o <<rec.status>>
    ELSE <<OP_PIXEL>> \o LE16(rec.x) \o LE16(rec.y) \o <<rec.r, rec.g, rec.b>>

RECURSIVE MessageBytes(_)
MessageBytes(recs) ==
    IF recs = <<>> THEN <<>> ELSE RecordBytes(Head(recs)) \o MessageBytes(Tail(recs))

\* the payload test dropped: a record is decoded whatever is left of the message
HasPayloadUnchecked(data, offset, n) == TRUE

\* not (offset + n > len(data))
HasPayload(data, offset, n) == ~(offset + n > Len(data))

\* `async for message in ws`: the next message, `recs` with the last `cut`
\* octets of its last record missing
ReceiveMessage(recs, cut) ==
    /\ dec_offset >= Len(dec_data)
    /\ dec_msgs < MaxDecMsgs
    /\ cut < Len(RecordBytes(recs[Len(recs)]))
    /\ dec_msgs' = dec_msgs + 1
    /\ dec_data' = SubSeq(MessageBytes(recs), 1, Len(MessageBytes(recs)) - cut)
    /\ dec_offset' = 0
    /\ dec_sent' = dec_sent \o (IF cut = 0 THEN recs ELSE SubSeq(recs, 1, Len(recs) - 1))
    /\ UNCHANGED <<dec_conn, dec_out>>
    /\ UNCHANGED <<lifeVars, schedVars, impl, queueVars, senderVars, hbVars, wkVars, rrVars, sortVars, estVars, tkVars, cfgVars, tgtVars, encVars, rxVars, ppVars, rfVars,
                   rlVars, nframes, bursts, enq_log, wire>>

\* one turn of `while offset < len(data)` in receiver(): the opcode is read,
\* then its payload if all of it is there; otherwise the loop is left
ReceiverDecode ==
    /\ dec_conn = "rw"
    /\ dec_offset < Len(dec_data)
    /\ LET opcode == dec_data[dec_offset + 1]
           offset == dec_offset + 1
       IN IF opcode = OP_PING
          THEN /\ dec_out' = Append(dec_out, PingRec)
               /\ dec_offset' = offset
          ELSE IF opcode = OP_RESULT
          THEN IF ~HasPayload(dec_data, offset, RESULT_PAYLOAD)
               THEN /\ dec_offset' = Len(dec_data)
                    /\ UNCHANGED dec_out
               ELSE /\ dec_out' = Append(dec_out, ResultRec(FromLE(dec_data, offset, 4),
                                                            FromLE(dec_data, offset + 4, 1)))
                    /\ dec_offset' = offset + RESULT_PAYLOAD
          ELSE IF opcode = OP_PIXEL
          THEN IF ~HasPayload(dec_data, offset, PIXEL_PAYLOAD)
               THEN /\ dec_offset' = Len(dec_data)
                    /\ UNCHANGED dec_out
               ELSE /\ dec_out' = Append(dec_out,
                                         PixelRec(FromLE(dec_data, offset, 2),
                                                  FromLE(dec_data, offset + 2, 2),
                                                  FromLE(dec_data, offset + 4, 1),
                                                  FromLE(dec_data, offset + 5, 1),
                                                  FromLE(dec_data, offset + 6, 1)))
                    /\ dec_offset' = offset + PIXEL_PAYLOAD
          ELSE /\ dec_offset' = offset
               /\ UNCHANGED dec_out
    /\ UNCHANGED <<dec_conn, dec_data, dec_sent, dec_msgs>>
    /\ UNCHANGED <<lifeVars, schedVars, impl, queueVars, senderVars, hbVars, wkVars, rrVars, sortVars, estVars, tkVars, cfgVars, tgtVars, encVars, rxVars, ppVars, rfVars,
                   rlVars, nframes, bursts, enq_log, wire>>

\* one turn of the loop in write_only_worker.heartbeat_handler: a Ping is
\* answered, the payload of a result or of a pixel update is stepped over
WriterDecode ==
    /\ dec_conn = "w0"
    /\ dec_offset < Len(dec_data)
    /\ LET opcode == dec_data[dec_offset + 1]
           offset == dec_offset + 1
       IN IF opcode = OP_PING
          THEN /\ dec_out' = Append(dec_out, PingRec)
               /\ dec_offset' = offset
          ELSE /\ dec_offset' = IF opcode = OP_RESULT THEN offset + RESULT_PAYLOAD
                                ELSE IF opcode = OP_PIXEL THEN offset + PIXEL_PAYLOAD
                                ELSE offset
               /\ UNCHANGED dec_out
    /\ UNCHANGED <<dec_conn, dec_data, dec_sent, dec_msgs>>
    /\ UNCHANGED <<lifeVars, schedVars, impl, queueVars, senderVars, hbVars, wkVars, rrVars, sortVars, estVars, tkVars, cfgVars, tgtVars, encVars, rxVars, ppVars, rfVars,
                   rlVars, nframes, bursts, enq_log, wire>>

ServerMessages == UNION {[1..n -> ServerRecords] : n \in 1..MaxRecords}

\* a handler waiting for its first message
DecodeSpecInit ==
    /\ PainterInit
    /\ dec_conn \in Conns
    /\ paint_args = NoArgs
    /\ NoLayers

NextDecode ==
    \/ \E recs \in ServerMessages, cut \in 0..PIXEL_PAYLOAD : ReceiveMessage(recs, cut)
    \/ ReceiverDecode
    \/ WriterDecode

SpecDecode == DecodeSpecInit /\ [][NextDecode]_vars

\* ------------------------------------------------------------------------
\* paint(): the 31 octets of one frame
\* ------------------------------------------------------------------------

\* n.to_bytes(k, 'little')
RECURSIVE ToLE(_, _)
ToLE(n, k) == IF k = 0 THEN <<>> ELSE <<n % 256>> \o ToLE(n \div 256, k - 1)

\* x and y written high octet first
PaintDataBigEndian(a) ==
    <<OP_PAINT>> \o <<a.x \div 256, a.x % 256>> \o <<a.y \div 256, a.y % 256>>
        \o <<a.r, a.g, a.b>> \o ToLE(a.uid, 3) \o a.token
        \o ToLE(a.paint_id.lo, 2) \o ToLE(a.paint_id.hi, 2)

\* paint_data = bytearray(31) and its slices, the paint id as its two halves
PaintData(a) ==
    <<OP_PAINT>> \o ToLE(a.x, 2) \o ToLE(a.y, 2)
        \o <<a.r, a.g, a.b>> \o ToLE(a.uid, 3) \o a.token
        \o ToLE(a.paint_id.lo, 2) \o ToLE(a.paint_id.hi, 2)

Tokens == {[i \in 1..TOKEN_LEN |-> 0], [i \in 1..TOKEN_LEN |-> 256 - i]}
PaintArgs ==
    [x : {0, 255, 256, CANVAS_W - 1}, y : {0, 256, CANVAS_H - 1},
     r : {0, 255}, g : {OP_PAINT}, b : {1},
     uid : {0, 65535 + NumUsers, UID_MAX}, token : Tokens,
     paint_id : {ZeroId, IdPlus(ZeroId, PAINT_ID_HALF + 258),
                 [hi |-> PAINT_ID_HALF - 1, lo |-> PAINT_ID_HALF - 1]}]

\* await paint(ws, uid, token, r, g, b, x, y, paint_id)
PaintEncode ==
    /\ paint_data = <<>>
    /\ paint_data' = PaintData(paint_args)
    /\ UNCHANGED <<lifeVars, schedVars, impl, queueVars, senderVars, hbVars, wkVars, rrVars, sortVars, estVars, tkVars, cfgVars, tgtVars, rxVars, ppVars, rfVars,
                   rlVars, decVars, paint_args, nframes, bursts, enq_log, wire>>

PaintSpecInit ==
    /\ PainterInit
    /\ dec_conn = "rw"
    /\ paint_args \in PaintArgs
    /\ NoLayers

NextPaint == PaintEncode

SpecPaint == PaintSpecInit /\ [][NextPaint]_vars

\* ------------------------------------------------------------------------
\* Loading and reloading the target picture
\* ------------------------------------------------------------------------

\* 3 x 2 images of one colour: fully opaque, or with alphas 255, 128 and 0
Opaque(col) == [i \in 1..6 |-> <<col, col, col, 255>>]
Mixed(col) == [i \in 1..6 |-> <<col, col, col, (<<255, 128, 0, 0, 128, 255>>)[i]>>]

\* the entries config['images'] may hold at position i at start-up: at the
\* corner of the canvas, one column to its left, or over its far corner
LayerConfigs(i) ==
    [enabled : {TRUE}, pixels : {Opaque(i), Mixed(i)}, width : {3}, height : {2},
     start_x : {0}, start_y : {0}, draw_mode : Modes, weight : 1..2]
    \cup [enabled : {TRUE}, pixels : {Opaque(i), Mixed(i)}, width : {3}, height : {2},
          start_x : {-1}, start_y : {0}, draw_mode : Modes, weight : 1..2]
    \cup [enabled : {TRUE}, pixels : {Opaque(i), Mixed(i)}, width : {3}, height : {2},
          start_x : {CANVAS_W - 2}, start_y : {CANVAS_H - 1}, draw_mode : Modes,
          weight : 1..2]

RECURSIVE ImagesConfigs(_)
ImagesConfigs(n) ==
    IF n = 0 THEN {<<>>}
    ELSE {Append(c, l) : c \in ImagesConfigs(n - 1), l \in LayerConfigs(n)}

\* the GUI switches one image on or off, loads the images again and asks the
\* scheduler to rebuild its target
ToggleImage(idx) ==
    /\ idx \in 1..Len(images_config)
    /\ images_config' = [images_config EXCEPT ![idx].enabled = ~@]
    /\ gui_images_data' = load_all_images(images_config')
    /\ reload_pixels' = TRUE
    /\ UNCHANGED <<lifeVars, schedVars, impl, queueVars, senderVars, hbVars, wkVars, rrVars, sortVars, estVars, tkVars, rxVars, ppVars, rfVars,
                   rlVars, decVars, encVars, ignore_semitransparent, images_data,
                   combined_target_map, all_target_positions, pos_to_image_idx,
                   positions_by_image, merged_images, nframes, bursts, enq_log, wire>>

\* the scheduler's step 4: the target is merged again from the GUI's images
ReloadPixels ==
    /\ conn = "up"
    /\ pc = "loop"
    /\ reload_pixels
    /\ reload_pixels' = FALSE
    /\ LET result == merge_target_maps(gui_images_data)
       IN  /\ combined_target_map' = result.combined_target_map
           /\ pos_to_image_idx' = result.pos_to_image_idx
           /\ all_target_positions' = TargetPositions(result.positions_by_mode)
    /\ merged_images' = gui_images_data
    /\ UNCHANGED <<lifeVars, schedVars, impl, queueVars, senderVars, hbVars, wkVars, rrVars, sortVars, estVars, tkVars, rxVars, ppVars, rfVars,
                   rlVars, decVars, encVars, images_config, ignore_semitransparent, images_data,
                   gui_images_data, positions_by_image, nframes, bursts, enq_log, wire>>

TargetSpecInit ==
    /\ images_config \in ImagesConfigs(NumLayers)
    /\ ignore_semitransparent \in BOOLEAN
    /\ TgtInit
    /\ est_stream = FlatStream
    /\ sort_states = [u \in 1..NumSortUsers |-> [last_success |-> 0]]
    /\ PainterInit
    /\ dec_conn = "rw"
    /\ paint_args = NoArgs

NextTarget ==
    \/ HandleWebsocketStart(NoBoard)
    \/ \E idx \in 1..NumLayers : ToggleImage(idx)
    \/ ReloadPixels

SpecTarget == TargetSpecInit /\ [][NextTarget]_vars

\* ------------------------------------------------------------------------
\* get_token and get_tokens_with_progress
\* ------------------------------------------------------------------------

\* how one POST /api/auth/gettoken can end: a token, a 200 answer without a
\* token, an HTTP error status (raise_for_status), or another exception
\* (connection refused, timeout, a body that is not JSON)
Outcomes == {"token", "no_token", "http_401", "http_503", "timeout"}

\* except requests.HTTPError: break;  except Exception: sleep and go on
Retried(outcome) == outcome = "timeout"

\* one pass of `for attempt in range(5)` for credential u
GtPost(u, outcome) ==
    /\ gt_pc[u] = "post"
    /\ attempt[u] < MAX_ATTEMPTS
    /\ attempt' = [attempt EXCEPT ![u] = @ + 1]
    /\ last_outcome' = [last_outcome EXCEPT ![u] = outcome]
    /\ IF Retried(outcome)
       THEN /\ slept' = [slept EXCEPT ![u] = Append(@, delay[u])]
            /\ delay' = [delay EXCEPT ![u] = Min(@ * 2, DELAY_CAP)]
            /\ gt_pc' = [gt_pc EXCEPT ![u] = IF attempt'[u] = MAX_ATTEMPTS THEN "done" ELSE "post"]
            /\ UNCHANGED gt_token
       ELSE /\ gt_pc' = [gt_pc EXCEPT ![u] = "done"]
            /\ gt_token' = [gt_token EXCEPT ![u] = IF outcome = "token" THEN u ELSE None]
            /\ UNCHANGED <<slept, delay>>
    /\ UNCHANGED <<lifeVars, schedVars, impl, queueVars, senderVars, hbVars, wkVars, rrVars, sortVars, estVars, rxVars, ppVars, rfVars,
                   rlVars, decVars, encVars, cfgVars, tgtVars, results, invalid_users,
                   nframes, bursts, enq_log, wire>>

\* for fut in as_completed(future_to_user): a token goes to results, a
\* credential without one is marked invalid
Collect(u) ==
    /\ gt_pc[u] = "done"
    /\ gt_pc' = [gt_pc EXCEPT ![u] = "collected"]
    /\ IF gt_token[u] # None
       THEN results' = Append(results, [uid |-> u, token |-> gt_token[u]])
            /\ UNCHANGED invalid_users
       ELSE invalid_users' = invalid_users \cup {u}
            /\ UNCHANGED results
    /\ UNCHANGED <<lifeVars, schedVars, impl, queueVars, senderVars, hbVars, wkVars, rrVars, sortVars, estVars, rxVars, ppVars, rfVars,
                   rlVars, decVars, encVars, cfgVars, tgtVars, attempt, delay, slept,
                   last_outcome, gt_token, nframes, bursts, enq_log, wire>>

NextToken ==
    \/ \E u \in Credentials, outcome \in Outcomes : GtPost(u, outcome)
    \/ \E u \in Credentials : Collect(u)

SpecToken == Init /\ [][NextToken]_vars

\* ------------------------------------------------------------------------
\* run_test_phase: detection of the steady state
\* ------------------------------------------------------------------------

\* steady_window_frames = max(10, int(steady_window_time / frame_interval))
steady_window_frames == Max(MIN_WINDOW, steady_window_time \div frame_interval)
\* min_frames_before_check = max(20, int(60.0 / frame_interval))
min_frames_before_check == Max(MIN_FRAMES, MIN_FRAMES_TIME \div frame_interval)

RECURSIVE SumSeq(_)
SumSeq(q) == IF q = <<>> THEN 0 ELSE Head(q) + SumSeq(Tail(q))

\* frame_completions[-volatility_window:]
Recent(completions) ==
    LET w == Min(steady_window_frames, Len(completions))
    IN  SubSeq(completions, Len(completions) - w + 1, Len(completions))

\* n * x - sum: n times the distance of a sample from the mean
Dev(recent, i) == Len(recent) * recent[i] - SumSeq(recent)

\* 40 times the threshold on the coefficient of variation: 0.30 below a mean
\* of 40, 0.35 below 70, 0.40 from there
Threshold40(recent) ==
    IF SumSeq(recent) < 40 * Len(recent) THEN 12
    ELSE IF SumSeq(recent) < 70 * Len(recent) THEN 14 ELSE 16

\* std_dev / avg_recent < volatility_threshold, the mean being above 1; as
\* 1600 * sum(dev^2) < threshold40^2 * n * sum^2
VolatilityOk(recent) ==
    /\ Len(recent) >= VOLATILITY_MIN_SAMPLES
    /\ SumSeq(recent) > Len(recent)
    /\ 1600 * SumSeq([i \in 1..Len(recent) |-> Dev(recent, i) * Dev(recent, i)])
          < Threshold40(recent) * Threshold40(recent) * Len(recent)
              * SumSeq(recent) * SumSeq(recent)

\* abs(slope) > 0.5 of the least-squares line through the window, as
\* 4 * |sum (2i - (n-1)) * dev_i| > n * sum (2i - (n-1))^2
HasTrend(recent) ==
    LET n == Len(recent)
        num == SumSeq([i \in 1..n |-> (2 * (i - 1) - (n - 1)) * Dev(recent, i)])
        den == SumSeq([i \in 1..n |-> (2 * (i - 1) - (n - 1)) * (2 * (i - 1) - (n - 1))])
    IN  /\ n >= VOLATILITY_MIN_SAMPLES
        /\ SumSeq(recent) > n
        /\ n >= TREND_MIN_SAMPLES
        /\ den > 0
        /\ 4 * Abs(num) > n * den

\* elif frames_since_max >= steady_window_frames and (volatility_ok or not has_trend)
Steady(since_max, volatility_ok, has_trend) ==
    since_max >= steady_window_frames /\ (volatility_ok \/ ~has_trend)

\* the board's completion at frame i: a first sample, then a line with a
\* square wave of period 4 on it
SampleAt(stream, i) ==
    IF i = 1 THEN stream.peak
    ELSE stream.base + stream.step * i + stream.amp * (<<1, -1, -1, 1>>)[(i % 4) + 1]

Streams == [peak : {0, 95}, base : {20, 50}, step : {0, 1}, amp : {0, 2, 15}]

\* one pass of `while True`: a frame is taken and the steady state looked for
Frame ==
    /\ frame_idx < MaxSamples
    /\ steady_frame_count < steady_frames_needed
    /\ LET current_completion == SampleAt(est_stream, frame_idx + 1)
           completions == Append(frame_completions, current_completion)
           idx == frame_idx + 1
           newmax == current_completion > max_completion
           max_frame == IF newmax THEN idx ELSE max_completion_frame
           frames_since_max == idx - max_frame
           volatility_ok == VolatilityOk(Recent(completions))
           has_trend == HasTrend(Recent(completions))
           declares == /\ ~steady_state_reached
                       /\ ~(idx < min_frames_before_check)
                       /\ Steady(frames_since_max, volatility_ok, has_trend)
       IN  /\ frame_completions' = completions
           /\ frame_idx' = idx
           /\ max_completion' = IF newmax THEN current_completion ELSE max_completion
           /\ max_completion_frame' = max_frame
           /\ steady_state_reached' = (steady_state_reached \/ declares)
           /\ steady_frame_count' = IF steady_state_reached THEN steady_frame_count + 1
                                    ELSE steady_frame_count
           /\ est_decision' = IF declares
                              THEN [frame |-> idx, frames_since_max |-> frames_since_max,
                                    volatility_ok |-> volatility_ok, has_trend |-> has_trend]
                              ELSE est_decision
    /\ UNCHANGED <<lifeVars, schedVars, impl, queueVars, senderVars, hbVars, wkVars, rrVars, sortVars, rxVars, ppVars, rfVars,
                   rlVars, decVars, encVars, cfgVars, tgtVars, tkVars, est_stream,
                   nframes, bursts, enq_log, wire>>

EstimatorSpecInit ==
    /\ est_stream \in Streams
    /\ sort_states = [u \in 1..NumSortUsers |-> [last_success |-> 0]]
    /\ images_config = <<>>
    /\ ignore_semitransparent = FALSE
    /\ TgtInit
    /\ PainterInit
    /\ dec_conn = "rw"
    /\ paint_args = NoArgs

NextEstimator == Frame

SpecEstimator == EstimatorSpecInit /\ [][NextEstimator]_vars

\* ------------------------------------------------------------------------
\* One allocation with several credentials
\* ------------------------------------------------------------------------

\* 7.1 and 7.2 of one iteration at time `clock`: the ready credentials are
\* sorted and the scan hands them out from the front
SortScan ==
    /\ ~sort_done
    /\ sort_done' = TRUE
    /\ LET ready == ReadyTokensOf(SortUsers, sort_states, clock)
       IN  /\ sort_ready' = ready
           /\ sort_assigned' =
                  IF ready = <<>> THEN <<>>
                  ELSE Scan(board_state, pos_locks, clock, ready, 0,
                            MaxSteps(Len(ready)), <<>>).assigned
    /\ UNCHANGED <<lifeVars, schedVars, impl, queueVars, senderVars, hbVars, wkVars, rrVars, rxVars, ppVars, rfVars,
                   rlVars, decVars, encVars, cfgVars, tgtVars, tkVars, estVars, sort_states,
                   nframes, bursts, enq_log, wire>>

\* a session in which the credentials were last used at any of the seconds
\* up to now, over any board
SortSpecInit ==
    /\ sort_states \in [1..NumSortUsers -> [last_success : 0..MaxTime]]
    /\ est_stream = FlatStream
    /\ images_config = <<>>
    /\ ignore_semitransparent = FALSE
    /\ TgtInit
    /\ conn = "up"
    /\ epoch = 1
    /\ ws_open = TRUE
    /\ need_reconnect = FALSE
    /\ down_at = 0
    /\ w_open = "open"
    /\ clock = MaxTime
    /\ pc = "loop"
    /\ now = MaxTime
    /\ token_states = InitTokenStates
    /\ token_refresh_needed = {}
    /\ refreshing = {}
    /\ token_gen = [u \in Users |-> 0]
    /\ active_tasks = {}
    /\ pos_locks = NoLocks
    /\ board_state \in [Coords -> Colors]
    /\ scan_cursor \in 0..(total_targets - 1)
    /\ global_paint_id = ZeroId
    /\ stats = [sent |-> 0, success |-> 0]
    /\ impl = "tool"
    /\ BatchInit
    /\ HbInit
    /\ last_rx = NoRx
    /\ invalid_uids = {}
    /\ PpInit
    /\ cooldown = user_cooldown_seconds
    /\ RfInit
    /\ RlInit
    /\ DecInit
    /\ dec_conn = "rw"
    /\ paint_args = NoArgs

NextSort == SortScan

SpecSort == SortSpecInit /\ [][NextSort]_vars

\* ------------------------------------------------------------------------
\* Properties of the scheduler (Spec)
\* ------------------------------------------------------------------------
Ceil(a, b) == (a + b - 1) \div b

\* C1: once a frame has been enqueued for a uid at real time t, no further
\* frame is enqueued for that uid at a time t' with t' - t < user_cooldown_seconds
C1_CooldownSpacing ==
    \A i, j \in 1..Len(enq_log) :
        (i < j /\ enq_log[i].uid = enq_log[j].uid)
            => enq_log[j].t - enq_log[i].t >= user_cooldown_seconds

C3_ReconnectKeepsCooldown ==
    [][(conn = "down" /\ conn' = "up" /\ epoch >= 1)
        => \A u \in Users : token_states'[u].last_success = token_states[u].last_success]_vars

\* C4: a coordinate present in the canvas mirror stays present, also across a
\* reconnect whose snapshot fetch fails
C4_MirrorNeverPruned ==
    [][\A p \in Coords : board_state[p] # None => board_state'[p] # None]_vars

\* C5: a position assigned at real time t gets the lock deadline
\* t + user_cooldown_seconds and no further frame is enqueued for it before
\* that deadline
C5_PositionLock ==
    /\ \A i \in 1..Len(enq_log) :
          LockDeadline(enq_log[i].stamp) = enq_log[i].t + user_cooldown_seconds
    /\ \A i, j \in 1..Len(enq_log) :
          (i < j /\ enq_log[i].pos = enq_log[j].pos)
              => enq_log[j].t >= enq_log[i].t + user_cooldown_seconds

\* ------------------------------------------------------------------------
\* Properties of the connections (SpecConn) and of the batcher (SpecBatch)
\* ------------------------------------------------------------------------
IsPongMessage(m) == m = <<Pong>>
PongMessages(c) == Len(SelectSeq(wire[c], IsPongMessage))
PaintMessages(c) == Len(wire[c]) - PongMessages(c)

C7_WholeFrames ==
    /\ \A c \in Conns : \A i \in 1..Len(wire[c]) :
          IsPongMessage(wire[c][i]) \/ WholeFrames(wire[c][i])
    /\ WholeFrames(paint_queue)
    /\ WholeFrames(main_paint_queue)

QueuedBytes == IF impl = "tool" THEN paint_queue ELSE main_paint_queue
NextTake ==
    IF impl = "tool" THEN paint_queue
    ELSE get_merged_data(main_paint_queue, main_total_size, max_packet_size)

RECURSIVE FrameRuns(_)
FrameRuns(msgs) ==
    IF msgs = <<>> THEN <<>>
    ELSE SelectSeq(Head(msgs), LAMBDA it : it # Pong) \o FrameRuns(Tail(msgs))

InEnqueueOrder(runs) == \A i, j \in 1..Len(runs) : i < j => runs[i].hi <= runs[j].lo

\* C10: the frames sent on one connection appear in the order they were enqueued
C10_WireOrder == \A c \in Conns : InEnqueueOrder(FrameRuns(wire[c]))

\* ------------------------------------------------------------------------
\* Properties of the connection pool (SpecPool)
\* ------------------------------------------------------------------------
\* C11: a connection that closes has no effect on its sibling: the open
\* write-only connection stops being open only by its own close, which leaves
\* the read/write connection and the scheduler's session as they were, and
\* the close of the read/write connection leaves the write-only one open
C11_SiblingsUnaffected ==
    [][/\ (w_open = "open" /\ w_open' # "open")
            => (w_open' = "closed" /\ ws_open' = ws_open /\ conn' = conn)
       /\ (ws_open /\ ~ws_open') => w_open' = w_open]_vars

C13_MirrorOnly0xfa ==
    [][board_state' # board_state => (epoch' # epoch \/ last_rx'.kind = "fa")]_vars

\* C14: no frame is assigned to a uid that a 0xed result marked invalid and that
\* no successful refresh has cleared since: every entry a step adds to the log
\* of assigned frames belongs to a uid that is not invalid after the step
C14_NoFrameForInvalid ==
    [][\A i \in (Len(enq_log) + 1)..Len(enq_log') :
          enq_log'[i].uid \notin invalid_uids']_vars

\* C15: a uid queued for refresh by a 0xed result leaves the queue only by being
\* handed to the refresh the scheduler awaits; a successful refresh replaces the
\* token and zeroes fail_count and invalid_count, and last_success moves only
\* if the uid was ready and a frame was assigned to it
C15_RefreshOn0xed ==
    [][\A u \in Users :
          /\ (u \in token_refresh_needed /\ u \notin token_refresh_needed')
                => u \in refreshing'
          /\ token_gen'[u] # token_gen[u]
                => /\ token_states'[u].fail_count = 0
                   /\ token_states'[u].invalid_count = 0
                   /\ \/ token_states'[u].last_success = token_states[u].last_success
                      \/ IsReady(token_states, u, now)]_vars

\* C16: the zero-growth rule never fires at the end of 120 s in which every
\* credential was in cooldown: when it fires, some credential was ready at some
\* moment of the last ZERO_GROWTH_RECONNECT_THRESHOLD seconds
C16_StallNeedsReady ==
    [][("zero_growth" \in reconnect_causes' /\ "zero_growth" \notin reconnect_causes)
          => \E u \in Users :
                ~(/\ token_states[u].last_success <= clock - ZERO_GROWTH_RECONNECT_THRESHOLD
                  /\ clock - token_states[u].last_success < cooldown)]_vars

\* C17: an iteration of the supervisor that finds the last 0xfc ping more than
\* 60 s old marks the connection for reconnect
C17_PingSilence ==
    [][(conn = "up" /\ pp_next' # pp_next /\ clock - last_ping_received > MESSAGE_TIMEOUT)
          => need_reconnect']_vars

\* C18: on every connection, fewer than three failed Pong sends leave the
\* connection in service: a heartbeat handler has returned (which ends its
\* connection) only after PONG_FAIL_LIMIT failures on that connection
C18_ThreePongFailures ==
    \A c \in Conns : hb_pc[c] = "done" => pong_errors[c] >= PONG_FAIL_LIMIT

\* C19: in every state of run_forever, 1 s <= backoff <= 60 s
C19_BackoffBounds ==
    /\ FracLeq(Frac(BACKOFF_MIN, 1), backoff)
    /\ FracLeq(backoff, Frac(backoff_max, 1))

\* connections have ended, by return and by exception, and the backoff has
\* reached the ceiling and come back below it
C19_Witness ==
    /\ sessions >= 2
    /\ last_exit = "return"
    /\ last_lifetime >= MEDIUM_LIFETIME
    /\ backoff = Frac(backoff_max \div 2, 1)

\* C20: when a connection of lifetime d ends, however it ended, backoff becomes
\* min(2 * backoff, 60) if d < 10, max(1, backoff / 2) if 30 <= d < 60, and 1
\* if d >= 60
C20_BackoffUpdate ==
    [][sessions' # sessions =>
          /\ last_lifetime' < SHORT_LIFETIME
                => backoff' = FracMin(FracTimes(backoff, 2, 1), Frac(backoff_max, 1))
          /\ (last_lifetime' >= MEDIUM_LIFETIME /\ last_lifetime' < LONG_LIFETIME)
                => backoff' = FracMax(Frac(1, 1), FracTimes(backoff, 1, 2))
          /\ last_lifetime' >= LONG_LIFETIME => backoff' = Frac(1, 1)]_vars

\* C21: a stop request is never lost: once requested, the stop flag stays set
\* until run_forever has returned
C21_StopNotLost ==
    stop_requested => (stop \/ rf_pc = "returned")

\* C22: whenever token_refresh_interval has elapsed since the last refresh of
\* all tokens while a connection is open, a refresh eventually takes place,
\* unless the painter is stopped
C22_PeriodicRefresh ==
    (conn = "up" /\ clock - last_token_refresh >= token_refresh_interval)
        ~> (clock - last_token_refresh < token_refresh_interval \/ stop_requested)

\* C23: a reconnect leaves the scan cursor and every unexpired position lock
\* as they were
C23_ReconnectKeepsScheduler ==
    [][(epoch >= 1 /\ epoch' # epoch)
          => /\ scan_cursor' = scan_cursor
             /\ \A p \in Coords : Locked(pos_locks, p, clock) => pos_locks'[p] = pos_locks[p]]_vars

\* C24: the frames of a message whose send failed are discarded: the step in
\* which a send fails puts nothing back in a batcher queue
C24_FailedSendDiscards ==
    [][fails' # fails
          => (paint_queue' = paint_queue /\ main_paint_queue' = main_paint_queue)]_vars

\* what a handler acts on: receiver() on every record, heartbeat_handler on
\* the Pings only
ActsOn(c, recs) == IF c = "rw" THEN recs ELSE SelectSeq(recs, LAMBDA rec : rec = PingRec)

C26_FrameLayout ==
    paint_data # <<>> =>
        /\ Len(paint_data) = FRAME_LEN
        /\ paint_data[1] = OP_PAINT
        /\ FromLE(paint_data, 1, 2) = paint_args.x
        /\ FromLE(paint_data, 3, 2) = paint_args.y
        /\ <<paint_data[6], paint_data[7], paint_data[8]>>
              = <<paint_args.r, paint_args.g, paint_args.b>>
        /\ FromLE(paint_data, 8, 3) = paint_args.uid
        /\ SubSeq(paint_data, 12, 27) = paint_args.token
        /\ FromLE(paint_data, 27, 2) = paint_args.paint_id.lo
        /\ FromLE(paint_data, 29, 2) = paint_args.paint_id.hi
        /\ \A i \in 1..FRAME_LEN : paint_data[i] \in 0..255
        /\ (paint_args.x = 999 /\ paint_args.y = 599)
              => SubSeq(paint_data, 2, 5) = <<231, 3, 87, 2>>

\* the frame for the last pixel of the canvas, by the largest uid, with the
\* largest paint id
C26_Witness ==
    /\ paint_data # <<>>
    /\ paint_args.x = 999
    /\ paint_args.y = 599
    /\ paint_args.uid = UID_MAX
    /\ paint_args.paint_id = [hi |-> PAINT_ID_HALF - 1, lo |-> PAINT_ID_HALF - 1]

\* the coordinates looked at: around both corners of the canvas
Probe == ((0..3) \X (0..2)) \cup (((CANVAS_W - 3)..(CANVAS_W - 1)) \X ((CANVAS_H - 2)..(CANVAS_H - 1)))

\* the pixel a layer has at an absolute coordinate, <<0, 0, 0, 0>> outside it
PixelOf(img, c) ==
    IF /\ img.start_x <= c[1] /\ c[1] < img.start_x + img.width
       /\ img.start_y <= c[2] /\ c[2] < img.start_y + img.height
    THEN img.pixels[(c[2] - img.start_y) * img.width + (c[1] - img.start_x) + 1]
    ELSE <<0, 0, 0, 0>>
Covers(img, c) == PixelOf(img, c)[4] # 0
Owns(img, c) ==
    c \in DOMAIN pos_to_image_idx /\ pos_to_image_idx[c] = img.config_index
Merged == RangeOf(merged_images)

\* C27: a coordinate of the canvas goes to the heaviest layer that covers it
\* with a non-transparent pixel, with that layer's colour and config index,
\* wherever the layer stands in the config; a coordinate no layer covers is
\* not a target
C27_HighestWeightWins ==
    conn = "up" =>
        \A c \in Probe :
            LET claimants == {img \in Merged : Covers(img, c)}
            IN  IF claimants = {} THEN c \notin DOMAIN combined_target_map
                ELSE /\ c \in DOMAIN combined_target_map
                     /\ \E img \in claimants :
                            /\ \A other \in claimants : other.weight <= img.weight
                            /\ combined_target_map[c]
                                  = SubSeq(PixelOf(img, c), 1, 3)
                            /\ Owns(img, c)

\* the second layer of the config is the heavier one and takes the corner
\* both cover
C27_Witness ==
    /\ conn = "up"
    /\ Len(merged_images) = 2
    /\ merged_images[2].weight > merged_images[1].weight
    /\ Covers(merged_images[1], <<0, 0>>)
    /\ Covers(merged_images[2], <<0, 0>>)
    /\ pos_to_image_idx[<<0, 0>>] = 1
    /\ combined_target_map[<<0, 0>>] = <<2, 2, 2>>

\* C28: a pixel of alpha 0 is never a target of its layer; one of alpha
\* strictly between 0 and 255 is left out exactly when ignore_semitransparent
\* is set; one of alpha 255 inside the canvas is always a target
C28_AlphaRule ==
    conn = "up" =>
        \A c \in Probe : \A img \in Merged :
            LET a == PixelOf(img, c)[4]
            IN  /\ a = 0 => ~Owns(img, c)
                /\ (0 < a /\ a < 255 /\ ignore_semitransparent) => ~Owns(img, c)
                /\ (0 < a /\ a < 255 /\ ~ignore_semitransparent)
                      => c \in DOMAIN combined_target_map
                /\ a = 255 => c \in DOMAIN combined_target_map

\* C29: every coordinate of the target map, of the painting order, of the
\* per-layer lists and of the coordinate-to-layer map lies on the canvas,
\* also after a reload
C29_InsideCanvas ==
    \A c \in DOMAIN combined_target_map \cup DOMAIN pos_to_image_idx
                \cup RangeOf(all_target_positions)
                \cup UNION {RangeOf(positions_by_image[k]) : k \in DOMAIN positions_by_image} :
        /\ 0 <= c[1] /\ c[1] < 1000
        /\ 0 <= c[2] /\ c[2] < 600

\* a reloaded target with a layer that hangs over the far corner of the canvas
C29_Witness ==
    /\ conn = "up"
    /\ ~reload_pixels
    /\ merged_images # images_data
    /\ \E img \in Merged : img.start_x + img.width > 1000 /\ img.start_y + img.height > 600
    /\ <<999, 599>> \in DOMAIN combined_target_map
    /\ Len(all_target_positions) >= 2

\* the coordinates a layer owns, in its drawing order
LayerList(img) == SelectSeq(OrderedAbs(img), LAMBDA c : Owns(img, c))

RECURSIVE ConcatLists(_, _, _)
ConcatLists(images, order, k) ==
    IF k > Len(images) THEN <<>>
    ELSE LayerList(images[order[k]]) \o ConcatLists(images, order, k + 1)

\* C30: the painting order is the layers' lists one after the other, the
\* heaviest layer first, whatever the layers' draw modes
C30_OrderByWeight ==
    conn = "up" =>
        \E order \in Permutations(1..Len(merged_images)) :
            /\ \A k \in 1..(Len(merged_images) - 1) :
                  merged_images[order[k]].weight >= merged_images[order[k + 1]].weight
            /\ all_target_positions = ConcatLists(merged_images, order, 1)

\* the delays get_token sleeps, in order
RetryDelays == <<1, 2, 4, 8, 10>>
Transient == {"timeout", "http_503"}

\* C31: get_token posts at most five times, goes on after every transient
\* failure (a timeout, a 503) until the five are used, sleeps 1, 2, 4, 8, 10
\* seconds, and a credential without a token is left out of the results
\* while the others are still served
C31_FiveAttempts ==
    \A u \in Credentials :
        /\ attempt[u] <= 5
        /\ Len(slept[u]) <= 5
        /\ slept[u] = SubSeq(RetryDelays, 1, Len(slept[u]))
        /\ (gt_pc[u] # "post" /\ last_outcome[u] \in Transient) => attempt[u] = 5
        /\ (gt_pc[u] = "collected" /\ gt_token[u] = None)
              => /\ u \in invalid_users
                 /\ \A i \in 1..Len(results) : results[i].uid # u
        /\ (gt_pc[u] = "collected" /\ gt_token[u] # None)
              => \E i \in 1..Len(results) : results[i] = [uid |-> u, token |-> gt_token[u]]

\* C32: steady state is declared only with enough samples, a maximum that has
\* not advanced for a whole window, a coefficient of variation below the
\* threshold and no clear trend
C32_SteadyNeedsAll ==
    steady_state_reached =>
        /\ est_decision.frame >= min_frames_before_check
        /\ est_decision.frames_since_max >= steady_window_frames
        /\ est_decision.volatility_ok
        /\ ~est_decision.has_trend

\* C33: the paint id counter goes up by one per frame, modulo 2^32, a
\* reconnect does not restart it, and the tasks held at one time have
\* distinct ids
C33_PaintIdGlobal ==
    [][/\ (epoch >= 1 /\ epoch' # epoch) => global_paint_id' = global_paint_id
       /\ epoch' = epoch => global_paint_id' = IdPlus(global_paint_id, nframes' - nframes)
       /\ \A t1, t2 \in active_tasks' : t1.id = t2.id => t1 = t2]_vars

GotFrame(u) == \E i \in 1..Len(sort_assigned) : sort_assigned[i].uid = u

\* C34: in one iteration the ready credentials are used in ascending order of
\* last use: a credential gets a frame only if every ready credential used
\* longer ago gets one, and no credential gets two frames
C34_MostRestedFirst ==
    sort_done =>
        /\ \A u1, u2 \in 1..NumSortUsers :
              (/\ IsReady(sort_states, u1, clock)
               /\ IsReady(sort_states, u2, clock)
               /\ sort_states[u1].last_success < sort_states[u2].last_success
               /\ GotFrame(u2)) => GotFrame(u1)
        /\ \A i, j \in 1..Len(sort_assigned) :
              sort_assigned[i].uid = sort_assigned[j].uid => i = j
        /\ \A i \in 1..Len(sort_assigned) : IsReady(sort_states, sort_assigned[i].uid, clock)

\* three ready credentials, the first of the configuration the least rested,
\* and frames for the other two only
C34_Witness ==
    /\ sort_done
    /\ \A u \in 1..NumSortUsers : IsReady(sort_states, u, clock)
    /\ sort_states[1].last_success > sort_states[2].last_success
    /\ sort_states[2].last_success > sort_states[3].last_success
    /\ Len(sort_assigned) = 2
    /\ sort_assigned[1].uid = 3
    /\ sort_assigned[2].uid = 2

\* C35: within a session a position lock goes away or changes only once its
\* deadline has passed at the scheduler's time: the clean-up never removes a
\* lock that still holds
C35_GcOnlyExpired ==
    [][\A p \in Coords :
          (epoch' = epoch /\ pos_locks[p] # NoLock /\ pos_locks'[p] # pos_locks[p])
              => pos_locks[p] <= now']_vars

\* the lock of a position painted in this session has been cleaned up while
\* the lock of another position still holds
C35_Witness ==
    /\ conn = "up"
    /\ \E p, q \in Coords :
          /\ pos_locks[p] = NoLock
          /\ \E i \in 1..Len(enq_log) : enq_log[i].pos = p /\ enq_log[i].epoch = epoch
          /\ pos_locks[q] # NoLock
          /\ clock < pos_locks[q]

\* C36: a position that needs paint is not passed over for ever: while the
\* connection is up, every allocation with a ready credential moves the
\* cursor on by the positions it scanned, so the position is reached, and
\* painted, before total_targets allocations in a row have left it out
C36_RoundRobin == \A p \in Coords : passed_over[p] < total_targets

\* the second position was left out by one allocation, which painted the
\* first, and was painted by the next
C36_Witness ==
    /\ conn = "up"
    /\ Len(enq_log) >= 2
    /\ enq_log[Len(enq_log) - 1].pos = 1
    /\ enq_log[Len(enq_log)].pos = 2
    /\ enq_log[Len(enq_log) - 1].epoch = epoch
    /\ board_state # NoBoard
    /\ board_state[1] # target_map[1]
    /\ passed_over[2] = 0

\* the runs of frame octets put on the wire: connection, message, item
WireRuns ==
    {<<c, m, k>> \in Conns \X (1..(2 * MaxFrames + 4)) \X (1..(2 * MaxFrames + 4)) :
        /\ m <= Len(wire[c])
        /\ k <= Len(wire[c][m])
        /\ wire[c][m][k] # Pong}
RunAt(w) == wire[w[1]][w[2]][w[3]]

\* C37: no octet of an enqueued frame is put on the wire twice, whichever
\* sender took it and whatever send failed in between
C37_SentAtMostOnce ==
    \A v, w \in WireRuns :
        v # w => (RunAt(v).hi <= RunAt(w).lo \/ RunAt(w).hi <= RunAt(v).lo)

C39_PeerKeepsFrames ==
    [][(peer_conn = "down" /\ peer_conn' = "up") => paint_queue' = paint_queue]_vars

====
